---- MODULE Spec2Model ----
(***************************************************************************)
(* Model of the genotype ingestion engine of biosynth's cli crate:         *)
(*   src/cli/src/genotype.rs            process_file, detect_delimiter,    *)
(*                                      LineParser and its helpers         *)
(*   src/cli/src/commands/genostats.rs  run_genostats, process_single_file *)
(*   src/cli/src/stats.rs               the StatsStore interface           *)
(*                                                                         *)
(* Text is modelled at the level of characters: a string is a sequence of  *)
(* one-character strings, a line keeps its line terminator as read_line    *)
(* returns it, and a file is a sequence of lines.                          *)
(***************************************************************************)
EXTENDS Integers, Sequences, FiniteSets, TLC

(***************************************************************************)
(* Bounds of the model.                                                    *)
(***************************************************************************)
\* Largest number of lines of a file handed to process_file.
MaxLines == 3
\* The lookahead window, scaled down from the 2048 lines of the program so
\* that files longer than the window are explored.
LookaheadBound == 2
\* Largest number of files of a batch, and largest worker count requested.
MaxFiles == 3
MaxThreads == 2

(***************************************************************************)
(* Characters and the str functions of the Rust standard library that the  *)
(* program calls.                                                          *)
(***************************************************************************)
UPPER == <<"A","B","C","D","E","F","G","H","I","J","K","L","M",
           "N","O","P","Q","R","S","T","U","V","W","X","Y","Z">>
LOWER == <<"a","b","c","d","e","f","g","h","i","j","k","l","m",
           "n","o","p","q","r","s","t","u","v","w","x","y","z">>
DIGITS == <<"0","1","2","3","4","5","6","7","8","9">>

\* The characters in byte order (the order of str's Ord, used by BTreeSet).
ByteOrder ==
    <<"\t", "\n", "\r", " ", "\"", "#", "+", ",", "-", "/">> \o DIGITS
        \o UPPER \o <<"_">> \o LOWER

Range(s) == {s[i] : i \in DOMAIN s}

IndexOf(seq, c) == CHOOSE i \in DOMAIN seq : seq[i] = c

Ord(c) == IndexOf(ByteOrder, c)

\* char::is_whitespace, on the characters of the model.
is_whitespace(c) == c \in {" ", "\t", "\n", "\r"}

is_digit(c) == c \in Range(DIGITS)

\* char::to_lowercase
to_lowercase(c) == IF c \in Range(UPPER) THEN LOWER[IndexOf(UPPER, c)] ELSE c

Min(a, b) == IF a <= b THEN a ELSE b

\* usize::max
max(a, b) == IF a >= b THEN a ELSE b

\* F(v), with v evaluated once and handed to F as a value.
Let(F(_), v) == CHOOSE y \in {F(x) : x \in {v}} : TRUE

RECURSIVE trim_start(_)
trim_start(s) ==
    IF s # <<>> /\ is_whitespace(Head(s)) THEN trim_start(Tail(s)) ELSE s

RECURSIVE trim_end(_)
trim_end(s) ==
    IF s # <<>> /\ is_whitespace(s[Len(s)])
    THEN trim_end(SubSeq(s, 1, Len(s) - 1))
    ELSE s

\* str::trim
trim(s) == trim_end(trim_start(s))

\* str::starts_with
starts_with(s, prefix) ==
    /\ Len(prefix) <= Len(s)
    /\ SubSeq(s, 1, Len(prefix)) = prefix

\* str::trim_start_matches: the prefix is removed as often as it matches.
RECURSIVE trim_start_matches(_, _)
trim_start_matches(s, prefix) ==
    IF starts_with(s, prefix)
    THEN trim_start_matches(SubSeq(s, Len(prefix) + 1, Len(s)), prefix)
    ELSE s

\* str::contains(char)
contains(s, c) == \E i \in DOMAIN s : s[i] = c

\* str::find: the index (from 1) of the first match of pat in s, 0 if none.
find(s, pat) ==
    LET hits == {i \in 1..(Len(s) - Len(pat) + 1) :
                    SubSeq(s, i, i + Len(pat) - 1) = pat}
    IN  IF hits = {} THEN 0 ELSE CHOOSE i \in hits : \A j \in hits : i <= j

\* str::split(char): the pieces between the separators, empty ones kept.
RECURSIVE split(_, _)
split(s, sep) ==
    LET i == find(s, <<sep>>)
    IN  IF i = 0
        THEN <<s>>
        ELSE <<SubSeq(s, 1, i - 1)>> \o split(SubSeq(s, i + 1, Len(s)), sep)

\* str::split_whitespace: the maximal runs of non-whitespace characters.
RECURSIVE split_whitespace(_)
split_whitespace(s) ==
    LET t == trim_start(s)
        ws == {i \in DOMAIN t : is_whitespace(t[i])}
        e == IF ws = {} THEN Len(t) + 1
             ELSE CHOOSE i \in ws : \A j \in ws : i <= j
    IN  IF t = <<>>
        THEN <<>>
        ELSE <<SubSeq(t, 1, e - 1)>> \o split_whitespace(SubSeq(t, e, Len(t)))

\* Lexicographic order of strings by bytes (str's Ord).
RECURSIVE str_less(_, _)
str_less(a, b) ==
    IF b = <<>> THEN FALSE
    ELSE IF a = <<>> THEN TRUE
    ELSE IF Head(a) # Head(b) THEN Ord(Head(a)) < Ord(Head(b))
    ELSE str_less(Tail(a), Tail(b))

\* str::parse::<i64>: an optional sign, then one or more decimal digits, and
\* a value in the range of i64.
I64_MAX_DIGITS == <<"9","2","2","3","3","7","2","0","3","6","8","5","4","7","7","5","8","0","7">>
I64_MIN_DIGITS == <<"9","2","2","3","3","7","2","0","3","6","8","5","4","7","7","5","8","0","8">>

RECURSIVE strip_zeros(_)
strip_zeros(ds) ==
    IF Len(ds) > 1 /\ Head(ds) = "0" THEN strip_zeros(Tail(ds)) ELSE ds

parse_i64_ok(s) ==
    LET signed == s # <<>> /\ Head(s) \in {"+", "-"}
        negative == s # <<>> /\ Head(s) = "-"
        ds == IF signed THEN Tail(s) ELSE s
        mag == strip_zeros(ds)
        limit == IF negative THEN I64_MIN_DIGITS ELSE I64_MAX_DIGITS
    IN  /\ ds # <<>>
        /\ \A i \in DOMAIN ds : is_digit(ds[i])
        /\ \/ Len(mag) < Len(limit)
           \/ Len(mag) = Len(limit) /\ ~str_less(limit, mag)

(***************************************************************************)
(* genotype.rs: constants.                                                 *)
(***************************************************************************)
LOOKAHEAD_LINES == LookaheadBound

COMMENT_PREFIXES == << <<"#">>, <<"/", "/">> >>

RSID_ALIASES ==
    << <<"r", "s", "i", "d">>,
       <<"n", "a", "m", "e">>,
       <<"s", "n", "p">>,
       <<"m", "a", "r", "k", "e", "r">>,
       <<"i", "d">> >>

CHROM_ALIASES ==
    << <<"c", "h", "r", "o", "m", "o", "s", "o", "m", "e">>,
       <<"c", "h", "r">>,
       <<"c", "h", "r", "o", "m">> >>

POSITION_ALIASES ==
    << <<"p", "o", "s", "i", "t", "i", "o", "n">>,
       <<"p", "o", "s">>,
       <<"c", "o", "o", "r", "d", "i", "n", "a", "t", "e">>,
       <<"b", "a", "s", "e", "p", "a", "i", "r", "p", "o", "s", "i", "t", "i", "o", "n">>,
       <<"b", "a", "s", "e", "p", "a", "i", "r">> >>

GENOTYPE_ALIASES ==
    << <<"g", "e", "n", "o", "t", "y", "p", "e">>,
       <<"g", "t">>,
       <<"r", "e", "s", "u", "l", "t">>,
       <<"r", "e", "s", "u", "l", "t", "s">>,
       <<"r", "e", "s", "u", "l", "t", "1">>,
       <<"c", "a", "l", "l">>,
       <<"c", "a", "l", "l", "s">>,
       <<"y", "o", "u", "r", "c", "o", "d", "e">>,
       <<"c", "o", "d", "e">>,
       <<"g", "e", "n", "o", "t", "y", "p", "e", "v", "a", "l", "u", "e">>,
       <<"v", "a", "r", "i", "a", "t", "i", "o", "n">> >>

ALLELE1_ALIASES ==
    << <<"a", "l", "l", "e", "l", "e", "1">>,
       <<"a", "l", "l", "e", "l", "e", "a">>,
       <<"a", "l", "l", "e", "l", "e", "_", "a">>,
       <<"a", "l", "l", "e", "l", "e", "1", "t", "o", "p">> >>

ALLELE2_ALIASES ==
    << <<"a", "l", "l", "e", "l", "e", "2">>,
       <<"a", "l", "l", "e", "l", "e", "b">>,
       <<"a", "l", "l", "e", "l", "e", "_", "b">>,
       <<"a", "l", "l", "e", "l", "e", "2", "t", "o", "p">> >>

\* Option<T>
None == [some |-> FALSE, val |-> <<>>]
Some(v) == [some |-> TRUE, val |-> v]

\* enum Delimiter
Delimiter == {"Tab", "Comma", "Space"}

\* enum ConsumeOutcome
ConsumeOutcome == {"Parsed", "Skipped", "Ignored"}

(***************************************************************************)
(* genotype.rs: free functions.                                            *)
(***************************************************************************)
\* A line is skipped by the sniffer when it is blank or starts with a
\* comment prefix once trimmed.
is_comment(trimmed) ==
    \E i \in DOMAIN COMMENT_PREFIXES : starts_with(trimmed, COMMENT_PREFIXES[i])

\* Mutant of sniff_line: the comma is looked for before the tab.
sniff_line_comma_first(line) ==
    LET trimmed == trim(line)
    IN  IF trimmed = <<>> \/ is_comment(trimmed) THEN "continue"
        ELSE IF contains(line, ",") THEN "Comma"
        ELSE IF contains(line, "\t") THEN "Tab"
        ELSE IF Len(split_whitespace(trimmed)) > 1 THEN "Space"
        ELSE "continue"

\* What detect_delimiter decides on one line: a delimiter, or "continue".
sniff_line(line) ==
    LET trimmed == trim(line)
    IN  IF trimmed = <<>> \/ is_comment(trimmed) THEN "continue"
        ELSE IF contains(line, "\t") THEN "Tab"
        ELSE IF contains(line, ",") THEN "Comma"
        ELSE IF Len(split_whitespace(trimmed)) > 1 THEN "Space"
        ELSE "continue"

\* Mutant of detect_delimiter: the decision is made on the first line that is
\* neither blank nor a comment, Tab when that line does not decide.
RECURSIVE detect_delimiter_on_first_substantive(_)
detect_delimiter_on_first_substantive(lines) ==
    IF lines = <<>> THEN "Tab"
    ELSE IF sniff_line(Head(lines)) # "continue" THEN sniff_line(Head(lines))
    ELSE IF trim(Head(lines)) = <<>> \/ is_comment(trim(Head(lines)))
    THEN detect_delimiter_on_first_substantive(Tail(lines))
    ELSE "Tab"

RECURSIVE detect_delimiter(_)
detect_delimiter(lines) ==
    IF lines = <<>> THEN "Tab"
    ELSE IF sniff_line(Head(lines)) # "continue" THEN sniff_line(Head(lines))
    ELSE detect_delimiter(Tail(lines))

\* Mutant of csv_scan: a doubled quote is not an escape, each quote toggles
\* the quoting state.
RECURSIVE csv_scan_without_escape(_, _, _, _)
csv_scan_without_escape(s, current, in_quotes, fields) ==
    IF s = <<>> THEN Append(fields, trim(current))
    ELSE LET ch == Head(s)
             rest == Tail(s)
         IN  IF ch = "\""
             THEN csv_scan_without_escape(rest, current, ~in_quotes, fields)
             ELSE IF ch = "," /\ ~in_quotes
             THEN csv_scan_without_escape(rest, <<>>, in_quotes,
                                          Append(fields, trim(current)))
             ELSE csv_scan_without_escape(rest, Append(current, ch), in_quotes,
                                          fields)

\* The scanner of split_csv_line: s is the rest of the line, current the
\* field being built, in_quotes the quoting state, fields the fields pushed.
RECURSIVE csv_scan(_, _, _, _)
csv_scan(s, current, in_quotes, fields) ==
    IF s = <<>> THEN Append(fields, trim(current))
    ELSE LET ch == Head(s)
             rest == Tail(s)
         IN  IF ch = "\""
             THEN IF in_quotes /\ rest # <<>> /\ Head(rest) = "\""
                  THEN csv_scan(Tail(rest), Append(current, "\""), in_quotes, fields)
                  ELSE csv_scan(rest, current, ~in_quotes, fields)
             ELSE IF ch = "," /\ ~in_quotes
             THEN csv_scan(rest, <<>>, in_quotes, Append(fields, trim(current)))
             ELSE csv_scan(rest, Append(current, ch), in_quotes, fields)

split_csv_line(line) == csv_scan(line, <<>>, FALSE, <<>>)

\* The characters normalize_name drops.
name_filler(c) == c \in {" ", "\t", "-", "_"}

RECURSIVE normalize_name(_)
normalize_name(name) ==
    IF name = <<>> THEN <<>>
    ELSE IF name_filler(Head(name)) THEN normalize_name(Tail(name))
    ELSE <<to_lowercase(Head(name))>> \o normalize_name(Tail(name))

\* Mutant of strip_inline_comment: the text after // is kept.
strip_inline_comment_hash_only(value) ==
    LET t0 == trim(value)
        i == find(t0, <<"#">>)
        t1 == IF i # 0 THEN SubSeq(t0, 1, i - 1) ELSE t0
    IN  trim(t1)

strip_inline_comment(value) ==
    LET t0 == trim(value)
        i == find(t0, <<"#">>)
        t1 == IF i # 0 THEN SubSeq(t0, 1, i - 1) ELSE t0
        j == find(t1, <<"/", "/">>)
        t2 == IF j # 0 THEN SubSeq(t1, 1, j - 1) ELSE t1
    IN  trim(t2)

(***************************************************************************)
(* genotype.rs: LineParser.                                                *)
(***************************************************************************)
\* The iteration order of a BTreeSet<&str>: ascending, without duplicates.
RECURSIVE btree_iter(_)
btree_iter(set) ==
    IF set = {} THEN <<>>
    ELSE LET least == CHOOSE a \in set : \A b \in set : a = b \/ str_less(a, b)
         IN  <<least>> \o btree_iter(set \ {least})

\* The alias_map LineParser::new builds: per canonical field, its aliases
\* as the BTreeSet built by `.iter().cloned().collect()` iterates them.
alias_map ==
    [key \in {"rsid", "chromosome", "position", "genotype", "allele1", "allele2"} |->
        btree_iter(Range(CASE key = "rsid" -> RSID_ALIASES
                           [] key = "chromosome" -> CHROM_ALIASES
                           [] key = "position" -> POSITION_ALIASES
                           [] key = "genotype" -> GENOTYPE_ALIASES
                           [] key = "allele1" -> ALLELE1_ALIASES
                           [] key = "allele2" -> ALLELE2_ALIASES))]

\* LineParser::new
LineParser_new(delimiter) ==
    [delimiter |-> delimiter, header |-> None, comment_header |-> None]

trim_each(fields) == [i \in DOMAIN fields |-> trim(fields[i])]

\* LineParser::parse_fields
parse_fields(self, line) ==
    CASE self.delimiter = "Tab" -> trim_each(split(line, "\t"))
      [] self.delimiter = "Space" -> trim_each(split_whitespace(line))
      [] self.delimiter = "Comma" -> split_csv_line(line)

\* LineParser::looks_like_header
looks_like_header(fields) ==
    /\ fields # <<>>
    /\ normalize_name(fields[1]) \in Range(alias_map["rsid"])

RECURSIVE to_decimal(_)
to_decimal(n) ==
    IF n < 10 THEN <<DIGITS[n + 1]>>
    ELSE to_decimal(n \div 10) \o <<DIGITS[(n % 10) + 1]>>

BASE_HEADER ==
    << <<"r", "s", "i", "d">>,
       <<"c", "h", "r", "o", "m", "o", "s", "o", "m", "e">>,
       <<"p", "o", "s", "i", "t", "i", "o", "n">>,
       <<"g", "e", "n", "o", "t", "y", "p", "e">> >>

\* Mutant of default_header: the extra columns are numbered from 1.
default_header_from_one(field_count) ==
    IF field_count <= Len(BASE_HEADER)
    THEN SubSeq(BASE_HEADER, 1, field_count)
    ELSE BASE_HEADER \o
         [idx \in 1..(field_count - Len(BASE_HEADER)) |->
             <<"e", "x", "t", "r", "a", "_">> \o to_decimal(idx)]

\* LineParser::default_header
default_header(field_count) ==
    IF field_count <= Len(BASE_HEADER)
    THEN SubSeq(BASE_HEADER, 1, field_count)
    ELSE BASE_HEADER \o
         [idx \in 1..(field_count - Len(BASE_HEADER)) |->
             <<"e", "x", "t", "r", "a", "_">> \o to_decimal(idx - 1)]

\* Mutant of build_row_map: the tokens beyond the header are not left out,
\* the last of them takes the place of the token under the last column.
build_row_map_clamping(header, fields) ==
    LET n == Min(Len(header), Len(fields))
        keys == {normalize_name(header[i]) : i \in 1..n}
        last(k) == CHOOSE i \in 1..n :
                      /\ normalize_name(header[i]) = k
                      /\ \A j \in 1..n : normalize_name(header[j]) = k => j <= i
        token(i) == IF i = Len(header) THEN fields[Len(fields)] ELSE fields[i]
    IN  [k \in keys |-> strip_inline_comment(token(last(k)))]

\* The row_map of consume_line: header names, normalized, mapped to the
\* values at the same positions; a later column replaces an earlier one of
\* the same normalized name (HashMap::insert), and tokens beyond the header
\* are left out.
build_row_map(header, fields) ==
    LET n == Min(Len(header), Len(fields))
        keys == {normalize_name(header[i]) : i \in 1..n}
        last(k) == CHOOSE i \in 1..n :
                      /\ normalize_name(header[i]) = k
                      /\ \A j \in 1..n : normalize_name(header[j]) = k => j <= i
    IN  [k \in keys |-> strip_inline_comment(fields[last(k)])]

\* LineParser::lookup
RECURSIVE lookup_from(_, _)
lookup_from(row_map, aliases) ==
    IF aliases = <<>> THEN None
    ELSE LET normalized_key == normalize_name(Head(aliases))
         IN  IF normalized_key \in DOMAIN row_map /\ row_map[normalized_key] # <<>>
             THEN Some(row_map[normalized_key])
             ELSE lookup_from(row_map, Tail(aliases))

lookup(row_map, key) == lookup_from(row_map, alias_map[key])

unwrap_or_default(opt) == IF opt.some THEN opt.val ELSE <<>>

\* What consume_line returns: the parser after the call, the Result (an
\* outcome, or "Err" when the handler failed) and the records handed to the
\* handler during the call.
Ret(self, result, calls) == [parser |-> self, result |-> result, calls |-> calls]

\* Mutant of resolve_header: the comment header is not taken, the default
\* header is synthesized instead.
resolve_header_without_comment(self, fields) ==
    IF self.header.some THEN [parser |-> self, consumed |-> FALSE]
    ELSE IF looks_like_header(fields)
    THEN [parser |-> [self EXCEPT !.header = Some(fields)], consumed |-> TRUE]
    ELSE [parser |-> [self EXCEPT !.header = Some(default_header(Len(fields)))],
          consumed |-> FALSE]

\* Mutant of resolve_header: a header-like line is consumed as the header
\* also when the header is already resolved.
resolve_header_on_every_line(self, fields) ==
    IF looks_like_header(fields)
    THEN [parser |-> [self EXCEPT !.header = Some(fields)], consumed |-> TRUE]
    ELSE IF self.header.some THEN [parser |-> self, consumed |-> FALSE]
    ELSE IF self.comment_header.some
    THEN [parser |-> [self EXCEPT !.header = self.comment_header,
                                  !.comment_header = None],
          consumed |-> FALSE]
    ELSE [parser |-> [self EXCEPT !.header = Some(default_header(Len(fields)))],
          consumed |-> FALSE]

\* Mutant of resolve_header: a comment-header candidate recorded after the
\* header was resolved replaces the header on the next row.
resolve_header_retaking_candidate(self, fields) ==
    IF self.header.some /\ self.comment_header.some
    THEN [parser |-> [self EXCEPT !.header = self.comment_header,
                                  !.comment_header = None],
          consumed |-> FALSE]
    ELSE IF self.header.some THEN [parser |-> self, consumed |-> FALSE]
    ELSE IF looks_like_header(fields)
    THEN [parser |-> [self EXCEPT !.header = Some(fields)], consumed |-> TRUE]
    ELSE IF self.comment_header.some
    THEN [parser |-> [self EXCEPT !.header = self.comment_header,
                                  !.comment_header = None],
          consumed |-> FALSE]
    ELSE [parser |-> [self EXCEPT !.header = Some(default_header(Len(fields)))],
          consumed |-> FALSE]

\* Mutant of resolve_header: a default header shorter than a later row is
\* synthesized again from that row.
resolve_header_extending_default(self, fields) ==
    IF /\ self.header.some
       /\ Len(self.header.val) < Len(fields)
       /\ self.header.val = default_header(Len(self.header.val))
    THEN [parser |-> [self EXCEPT !.header = Some(default_header(Len(fields)))],
          consumed |-> FALSE]
    ELSE IF self.header.some THEN [parser |-> self, consumed |-> FALSE]
    ELSE IF looks_like_header(fields)
    THEN [parser |-> [self EXCEPT !.header = Some(fields)], consumed |-> TRUE]
    ELSE IF self.comment_header.some
    THEN [parser |-> [self EXCEPT !.header = self.comment_header,
                                  !.comment_header = None],
          consumed |-> FALSE]
    ELSE [parser |-> [self EXCEPT !.header = Some(default_header(Len(fields)))],
          consumed |-> FALSE]

\* Mutant of resolve_header: a header-like line met after the header was
\* resolved is dropped as a repeated header, the header staying as it is.
resolve_header_dropping_repeats(self, fields) ==
    IF self.header.some
    THEN [parser |-> self, consumed |-> looks_like_header(fields)]
    ELSE IF looks_like_header(fields)
    THEN [parser |-> [self EXCEPT !.header = Some(fields)], consumed |-> TRUE]
    ELSE IF self.comment_header.some
    THEN [parser |-> [self EXCEPT !.header = self.comment_header,
                                  !.comment_header = None],
          consumed |-> FALSE]
    ELSE [parser |-> [self EXCEPT !.header = Some(default_header(Len(fields)))],
          consumed |-> FALSE]

\* The part of consume_line that resolves the header on a non-comment line
\* with fields: the parser after it, and whether the line was consumed as
\* the header.
resolve_header(self, fields) ==
    IF self.header.some THEN [parser |-> self, consumed |-> FALSE]
    ELSE IF looks_like_header(fields)
    THEN [parser |-> [self EXCEPT !.header = Some(fields)], consumed |-> TRUE]
    ELSE IF self.comment_header.some
    THEN [parser |-> [self EXCEPT !.header = self.comment_header,
                                  !.comment_header = None],
          consumed |-> FALSE]
    ELSE [parser |-> [self EXCEPT !.header = Some(default_header(Len(fields)))],
          consumed |-> FALSE]

\* Mutant of validate_row: a row without a genotype is skipped whatever its
\* alleles.
validate_row_without_alleles(row_map) ==
    LET rsid == lookup(row_map, "rsid")
        chromosome == lookup(row_map, "chromosome")
        position == lookup(row_map, "position")
        genotype_value == lookup(row_map, "genotype")
    IN  IF ~(rsid.some /\ rsid.val # <<>>) THEN [outcome |-> "Skipped"]
        ELSE IF ~chromosome.some \/ chromosome.val = <<>> THEN [outcome |-> "Skipped"]
        ELSE IF ~(position.some /\ parse_i64_ok(position.val))
        THEN [outcome |-> "Skipped"]
        ELSE IF ~genotype_value.some THEN [outcome |-> "Skipped"]
        ELSE [outcome |-> "Parsed", record |-> [_rsid |-> rsid.val]]

\* The part of consume_line that validates a data row, given its row_map:
\* "Skipped", or "Parsed" with the record for the handler.
validate_row(row_map) ==
    LET rsid == lookup(row_map, "rsid")
        chromosome == lookup(row_map, "chromosome")
        position == lookup(row_map, "position")
        genotype_value == lookup(row_map, "genotype")
        allele1 == unwrap_or_default(lookup(row_map, "allele1"))
        allele2 == unwrap_or_default(lookup(row_map, "allele2"))
    IN  IF ~(rsid.some /\ rsid.val # <<>>) THEN [outcome |-> "Skipped"]
        ELSE IF ~chromosome.some \/ chromosome.val = <<>> THEN [outcome |-> "Skipped"]
        ELSE IF ~(position.some /\ parse_i64_ok(position.val))
        THEN [outcome |-> "Skipped"]
        ELSE IF ~genotype_value.some /\ allele1 = <<>> /\ allele2 = <<>>
        THEN [outcome |-> "Skipped"]
        ELSE [outcome |-> "Parsed", record |-> [_rsid |-> rsid.val]]

classify_row(header, fields) == Let(validate_row, build_row_map(header, fields))

\* Mutant of consume_comment: the first comment-header candidate is kept, a
\* later one does not replace it.
consume_comment_keeping_first(self, trimmed) ==
    LET prefix == COMMENT_PREFIXES[
                      CHOOSE i \in DOMAIN COMMENT_PREFIXES :
                          /\ starts_with(trimmed, COMMENT_PREFIXES[i])
                          /\ \A j \in 1..(i - 1) :
                                 ~starts_with(trimmed, COMMENT_PREFIXES[j])]
        candidate == trim(trim_start_matches(trimmed, prefix))
        fields == parse_fields(self, candidate)
    IN  IF candidate = <<>> THEN self
        ELSE IF looks_like_header(fields) /\ ~self.comment_header.some
        THEN [self EXCEPT !.comment_header = Some(fields)]
        ELSE self

\* The comment branch of consume_line: the candidate is the line without
\* its comment marker; a header-like candidate becomes the comment header.
consume_comment(self, trimmed) ==
    LET prefix == COMMENT_PREFIXES[
                      CHOOSE i \in DOMAIN COMMENT_PREFIXES :
                          /\ starts_with(trimmed, COMMENT_PREFIXES[i])
                          /\ \A j \in 1..(i - 1) :
                                 ~starts_with(trimmed, COMMENT_PREFIXES[j])]
        candidate == trim(trim_start_matches(trimmed, prefix))
        fields == parse_fields(self, candidate)
    IN  IF candidate = <<>> THEN self
        ELSE IF looks_like_header(fields)
        THEN [self EXCEPT !.comment_header = Some(fields)]
        ELSE self

\* Mutant of consume_fields: the error of the handler is swallowed and the
\* row is reported as Parsed.
consume_fields_swallowing(self, fields, handler_ok) ==
    LET after(resolved) ==
            LET finish(row) ==
                    IF row.outcome = "Skipped"
                    THEN Ret(resolved.parser, "Skipped", <<>>)
                    ELSE Ret(resolved.parser, "Parsed", <<row.record>>)
            IN  IF resolved.consumed
                THEN Ret(resolved.parser, "Ignored", <<>>)
                ELSE Let(finish, classify_row(resolved.parser.header.val, fields))
    IN  IF fields = <<>> THEN Ret(self, "Ignored", <<>>)
        ELSE Let(after, resolve_header(self, fields))

\* consume_line on a line that is neither blank nor a comment, given its
\* fields.
consume_fields(self, fields, handler_ok) ==
    LET after(resolved) ==
            LET finish(row) ==
                    IF row.outcome = "Skipped"
                    THEN Ret(resolved.parser, "Skipped", <<>>)
                    ELSE IF ~handler_ok
                    THEN Ret(resolved.parser, "Err", <<row.record>>)
                    ELSE Ret(resolved.parser, "Parsed", <<row.record>>)
            IN  IF resolved.consumed
                THEN Ret(resolved.parser, "Ignored", <<>>)
                ELSE Let(finish, classify_row(resolved.parser.header.val, fields))
    IN  IF fields = <<>> THEN Ret(self, "Ignored", <<>>)
        ELSE Let(after, resolve_header(self, fields))

\* Mutant of consume_line: a line that is empty once trimmed is not returned
\* as Ignored at once, it goes on to parse_fields.
consume_line_without_blank_check(self, line, handler_ok) ==
    LET trimmed == trim(line)
        rest(fields) == consume_fields(self, fields, handler_ok)
    IN  IF trimmed # <<>> /\ is_comment(trimmed)
        THEN Ret(consume_comment(self, trimmed), "Ignored", <<>>)
        ELSE Let(rest, parse_fields(self, line))

\* LineParser::consume_line; handler_ok is what the handler returns if the
\* call invokes it.
consume_line(self, line, handler_ok) ==
    LET trimmed == trim(line)
        rest(fields) == consume_fields(self, fields, handler_ok)
    IN  IF trimmed = <<>> THEN Ret(self, "Ignored", <<>>)
        ELSE IF is_comment(trimmed)
        THEN Ret(consume_comment(self, trimmed), "Ignored", <<>>)
        ELSE Let(rest, parse_fields(self, line))

(***************************************************************************)
(* The input lines of the model, as read_line returns them.  A file is a   *)
(* sequence of at most MaxLines lines of one corpus.                       *)
(***************************************************************************)
\* A header line.
L_HEADER ==
    <<"r", "s", "i", "d", "\t", "c", "h", "r", "o", "m", "o", "s", "o",
      "m", "e", "\t", "p", "o", "s", "i", "t", "i", "o", "n", "\t",
      "g", "e", "n", "o", "t", "y", "p", "e", "\n">>
\* A complete row.
L_ROW ==
    <<"r", "s", "1", "\t", "1", "\t", "1", "0", "0", "\t", "A", "A",
      "\n">>
\* A row whose position is no integer.
L_BAD_POSITION ==
    <<"r", "s", "2", "\t", "1", "\t", "x", "\t", "A", "A", "\n">>
\* A comment that looks like a header.
L_COMMENT_HEADER ==
    <<"#", " ", "r", "s", "i", "d", "\t", "c", "h", "r", "o", "m", "o",
      "s", "o", "m", "e", "\t", "p", "o", "s", "i", "t", "i", "o", "n",
      "\t", "g", "e", "n", "o", "t", "y", "p", "e", "\n">>
\* An empty line.
L_BLANK ==
    <<"\n">>
\* A row of two fields.
L_TWO_FIELDS ==
    <<"r", "s", "3", "\t", "2", "\n">>
\* A comment that does not look like a header.
L_NOTE ==
    <<"#", " ", "n", "o", "t", "e", "\n">>
\* A header with an allele pair and no genotype column.
L_ALLELE_HEADER ==
    <<"S", "N", "P", "\t", "C", "h", "r", "\t", "P", "o", "s", "\t",
      "A", "l", "l", "e", "l", "e", "1", "\t", "A", "l", "l", "e", "l",
      "e", "2", "\n">>
\* A row with neither genotype nor alleles.
L_NO_CALL ==
    <<"r", "s", "4", "\t", "1", "\t", "1", "0", "0", "\t", "\t", "\n">>
\* The same row with allele1 set.
L_ALLELE1_ONLY ==
    <<"r", "s", "4", "\t", "1", "\t", "1", "0", "0", "\t", "A", "\t",
      "\n">>
\* A row of six fields, the fourth with an inline comment.
L_SIX_FIELDS ==
    <<"r", "s", "6", "\t", "1", "\t", "1", "0", "0", "\t", "A", "G",
      " ", "#", " ", "c", "\t", "x", "\t", "y", "\n">>
\* A header with two aliases of rsid.
L_TWO_ID_HEADER ==
    <<"r", "s", "i", "d", "\t", "i", "d", "\t", "c", "h", "r", "\t",
      "p", "o", "s", "\t", "g", "t", "\n">>
\* A row whose first field is empty.
L_NO_RSID ==
    <<"\t", "1", "\t", "1", "0", "0", "\t", "A", "A", "\n">>
\* A header line whose first column is Marker Name.
L_MARKER_NAME ==
    <<"M", "a", "r", "k", "e", "r", " ", "N", "a", "m", "e", "\t", "C",
      "h", "r", "\t", "P", "o", "s", "\t", "G", "T", "\n">>
\* A comma-separated header.
L_CSV_HEADER ==
    <<"R", "S", "I", "D", ",", "C", "h", "r", "o", "m", "o", "s", "o",
      "m", "e", ",", "P", "o", "s", "i", "t", "i", "o", "n", ",", "R",
      "e", "s", "u", "l", "t", "\n">>
\* A comma-separated row.
L_CSV_ROW ==
    <<"r", "s", "1", ",", "1", ",", "1", "0", "0", ",", "A", "A", "\n">>
\* A row with quoted fields.
L_CSV_QUOTED ==
    <<"\"", "r", "s", "1", "2", "3", "\"", ",", "\"", "1", ",", " ",
      "e", "x", "t", "r", "a", "\"", ",", "1", "0", "0", ",", "A", "A",
      "\n">>
\* A row with tabs and a comma.
L_TAB_AND_COMMA ==
    <<"r", "s", "7", "\t", "1", ",", "5", "\t", "1", "0", "0", "\t",
      "A", "G", "\n">>
\* A // comment that looks like a header.
L_SLASH_HEADER ==
    <<"/", "/", " ", "i", "d", ",", "c", "h", "r", ",", "p", "o", "s",
      ",", "g", "t", "\n">>
\* A space-separated header starting with Marker Name.
L_SP_MARKER_NAME ==
    <<"M", "a", "r", "k", "e", "r", " ", "N", "a", "m", "e", " ", "C",
      "h", "r", " ", "P", "o", "s", " ", "G", "T", "\n">>
\* A space-separated row.
L_SP_ROW ==
    <<"r", "s", "1", " ", "1", " ", "1", "0", "0", " ", "A", "A", "\n">>
\* A line of one token.
L_ONE_TOKEN ==
    <<"r", "s", "8", "\n">>
\* A space-separated header.
L_SP_HEADER ==
    <<"r", "s", "i", "d", " ", "c", "h", "r", "o", "m", "o", "s", "o",
      "m", "e", " ", "p", "o", "s", "i", "t", "i", "o", "n", " ", "g",
      "e", "n", "o", "t", "y", "p", "e", "\n">>
\* A line of spaces.
L_SPACES ==
    <<" ", " ", "\n">>

\* A comma header whose last name is quoted, with a comma and doubled quotes.
L_CSV_ESCAPED_HEADER ==
    <<"r", "s", "i", "d", ",", "c", "h", "r", ",", "p", "o", "s", ",", "g",
      "t", ",", "\"", "a", " ", "\"", "\"", "b", "\"", "\"", ",", " ", "c",
      "\"", "\n">>
\* A row for a header with an rsid column and an id column.
L_TWO_ID_ROW ==
    <<"r", "s", "9", "\t", "x", "9", "\t", "1", "\t", "1", "0", "0", "\t",
      "A", "A", "\n">>
\* A // comment that looks like a tab-separated header.
L_SLASH_SNP_HEADER ==
    <<"/", "/", " ", "s", "n", "p", "\t", "c", "h", "r", "\t", "p", "o", "s", "\t", "g", "t", "\n">>
\* A row of five fields, the fourth empty.
L_LATE_GENOTYPE ==
    <<"r", "s", "5", "\t", "1", "\t", "1", "0", "0", "\t", "\t", "A", "A", "\n">>
\* A row whose four fields each end with an inline comment.
L_COMMENTED_FIELDS ==
    <<"r", "s", "7", " ", "/", "/", " ", "a", "\t", "1", " ", "#", " ", "b", "\t", "1", "0", "0", " ", "/", "/", " ", "c", "\t", "A", "A", " ", "#", " ", "d", " ", "/", "/", " ", "e", "\n">>
\* A row whose fourth field is an inline comment and nothing else.
L_COMMENTED_OUT_GENOTYPE ==
    <<"r", "s", "8", "\t", "1", "\t", "1", "0", "0", "\t", "#", " ", "A", "A", "\n">>

TabCorpus ==
    {L_HEADER, L_ROW, L_BAD_POSITION, L_COMMENT_HEADER, L_BLANK, L_TWO_FIELDS,
     L_NOTE}

AlleleCorpus ==
    {L_ALLELE_HEADER, L_NO_CALL, L_ALLELE1_ONLY, L_SIX_FIELDS, L_TWO_ID_HEADER,
     L_NO_RSID, L_MARKER_NAME}

CommaCorpus ==
    {L_CSV_HEADER, L_CSV_ROW, L_CSV_QUOTED, L_TAB_AND_COMMA, L_SLASH_HEADER,
     L_COMMENT_HEADER, L_BLANK}

SpaceCorpus ==
    {L_SP_MARKER_NAME, L_SP_ROW, L_ONE_TOKEN, L_SP_HEADER, L_SPACES, L_NOTE}

\* Comma files with quoted fields.
QuoteCorpus == {L_CSV_ESCAPED_HEADER, L_CSV_QUOTED}

\* Tab files with two columns that are aliases of rsid.
IdCorpus == {L_TWO_ID_HEADER, L_TWO_ID_ROW}

\* Tab files with several comment-header candidates.
CandidateCorpus == {L_COMMENT_HEADER, L_SLASH_SNP_HEADER, L_NOTE, L_ROW}

\* Tab files with rows wider and narrower than the header.
WidthCorpus == {L_HEADER, L_LATE_GENOTYPE, L_TWO_FIELDS}

\* Tab files with rows that have inline comments in their fields.
InlineCommentCorpus == {L_HEADER, L_COMMENTED_FIELDS, L_COMMENTED_OUT_GENOTYPE}

Corpora ==
    {TabCorpus, AlleleCorpus, CommaCorpus, SpaceCorpus, QuoteCorpus, IdCorpus,
     CandidateCorpus, WidthCorpus, InlineCommentCorpus}

\* The files of at most n lines over a corpus.
FilesOver(corpus, n) == UNION {[1..k -> corpus] : k \in 0..n}

Files == UNION {FilesOver(corpus, MaxLines) : corpus \in Corpora}

(***************************************************************************)
(* State.                                                                  *)
(*                                                                         *)
(* One call of process_file (specification SpecFile):                      *)
(*   exists          whether File::open succeeds on the path               *)
(*   file            the lines of the file                                 *)
(*   pc              the position of process_file in its code              *)
(*   reader          the number of lines the BufReader has returned        *)
(*   buffered_lines  the lookahead window                                  *)
(*   next_buffered   the index of the next line of the replay loop         *)
(*   parser          the LineParser                                        *)
(*   summary         the ParseSummary                                      *)
(*   outcomes        what consume_line returned, call by call              *)
(*   sink_log        the records handed to on_variant, each with the       *)
(*                   number of the line it came from                       *)
(*   error           the error process_file returned, if any               *)
(***************************************************************************)
VARIABLES exists, file, pc, reader, buffered_lines, next_buffered, parser,
          summary, outcomes, sink_log, error

file_vars == <<exists, file, pc, reader, buffered_lines, next_buffered, parser,
               summary, outcomes, sink_log, error>>

(***************************************************************************)
(* State of one call of run_genostats (specification Spec):                *)
(*   threads              the size of the pool: args.threads.max(1)        *)
(*   skip_recorded_files  args.skip_recorded_files                         *)
(*   main_pc              the position of run_genostats in its code        *)
(*   files                the paths to process, in order                   *)
(*   pending              the paths no worker has started yet              *)
(*   worker               per worker of the pool: its position in the      *)
(*                        closure of for_each and the path it works on     *)
(*   ran                  per path, the run of process_single_file on it   *)
(*   failures             the Vec behind the failures mutex                *)
(*   mutex                the worker holding the failures mutex, 0 if free *)
(*   pb                   the position of the progress bar                 *)
(*   reported             the failure list run_genostats printed           *)
(*   returned             what run_genostats returned                      *)
(***************************************************************************)
VARIABLES threads, skip_recorded_files, main_pc, files, pending, worker, ran,
          failures, mutex, pb, reported, returned

batch_vars == <<threads, skip_recorded_files, main_pc, files, pending, worker, ran,
                failures, mutex, pb, reported, returned>>

vars == <<file_vars, batch_vars>>

\* The parser before LineParser::new has run.
NoParser == [delimiter |-> "unset", header |-> None, comment_header |-> None]

\* ParseSummary::default
ParseSummary_default == [variant_count |-> 0, skipped_rows |-> 0]

\* Mutant of count_outcome: a skipped row is counted as a variant too.
count_outcome_skipped_as_variant(s, outcome) ==
    CASE outcome = "Parsed" -> [s EXCEPT !.variant_count = @ + 1]
      [] outcome = "Skipped" -> [s EXCEPT !.variant_count = @ + 1,
                                          !.skipped_rows = @ + 1]
      [] OTHER -> s

\* The match on consume_line's outcome in process_file.
count_outcome(s, outcome) ==
    CASE outcome = "Parsed" -> [s EXCEPT !.variant_count = @ + 1]
      [] outcome = "Skipped" -> [s EXCEPT !.skipped_rows = @ + 1]
      [] OTHER -> s

FileInit ==
    /\ exists \in BOOLEAN
    /\ file \in (IF exists THEN Files ELSE {<<>>})
    /\ pc = "open"
    /\ reader = 0
    /\ buffered_lines = <<>>
    /\ next_buffered = 1
    /\ parser = NoParser
    /\ summary = ParseSummary_default
    /\ outcomes = <<>>
    /\ sink_log = <<>>
    /\ error = "none"

\* File::open(path)?
Open ==
    /\ pc = "open"
    /\ IF exists
       THEN pc' = "lookahead" /\ error' = error
       ELSE pc' = "failed" /\ error' = "open"
    /\ UNCHANGED <<exists, file, reader, buffered_lines, next_buffered, parser,
                   summary, outcomes, sink_log>>
    /\ UNCHANGED batch_vars

\* An error of reader.read_line, which `?` returns from process_file.
ReadError ==
    /\ pc \in {"lookahead", "stream"}
    /\ pc = "lookahead" => Len(buffered_lines) < LOOKAHEAD_LINES
    /\ pc' = "failed"
    /\ error' = "read"
    /\ UNCHANGED <<exists, file, reader, buffered_lines, next_buffered, parser,
                   summary, outcomes, sink_log>>
    /\ UNCHANGED batch_vars

\* One turn of the lookahead loop: a line is pushed, or the loop ends at the
\* end of the stream or with the window full.
ReadLookahead ==
    /\ pc = "lookahead"
    /\ IF Len(buffered_lines) < LOOKAHEAD_LINES /\ reader < Len(file)
       THEN /\ buffered_lines' = Append(buffered_lines, file[reader + 1])
            /\ reader' = reader + 1
            /\ pc' = pc
       ELSE /\ pc' = "sniff"
            /\ UNCHANGED <<buffered_lines, reader>>
    /\ UNCHANGED <<exists, file, next_buffered, parser, summary, outcomes,
                   sink_log, error>>
    /\ UNCHANGED batch_vars

\* Mutant of Sniff: a window without a data line is refused as an empty
\* file is.
Sniff_refusing_no_data ==
    /\ pc = "sniff"
    /\ IF \A i \in DOMAIN buffered_lines :
             trim(buffered_lines[i]) = <<>> \/ is_comment(trim(buffered_lines[i]))
       THEN /\ pc' = "failed"
            /\ error' = "empty"
            /\ UNCHANGED <<parser, summary>>
       ELSE /\ pc' = "buffered"
            /\ parser' = LineParser_new(detect_delimiter(buffered_lines))
            /\ summary' = ParseSummary_default
            /\ error' = error
    /\ UNCHANGED <<exists, file, reader, buffered_lines, next_buffered, outcomes,
                   sink_log>>
    /\ UNCHANGED batch_vars

\* Mutant of Sniff: the delimiter is detected from all the lines of the file
\* and not from the window alone.
Sniff_over_whole_file ==
    /\ pc = "sniff"
    /\ IF buffered_lines = <<>>
       THEN /\ pc' = "failed"
            /\ error' = "empty"
            /\ UNCHANGED <<parser, summary>>
       ELSE /\ pc' = "buffered"
            /\ parser' = LineParser_new(detect_delimiter(file))
            /\ summary' = ParseSummary_default
            /\ error' = error
    /\ UNCHANGED <<exists, file, reader, buffered_lines, next_buffered, outcomes,
                   sink_log>>
    /\ UNCHANGED batch_vars

\* The empty-file check, detect_metadata, detect_delimiter and
\* LineParser::new.
Sniff ==
    /\ pc = "sniff"
    /\ IF buffered_lines = <<>>
       THEN /\ pc' = "failed"
            /\ error' = "empty"
            /\ UNCHANGED <<parser, summary>>
       ELSE /\ pc' = "buffered"
            /\ parser' = LineParser_new(detect_delimiter(buffered_lines))
            /\ summary' = ParseSummary_default
            /\ error' = error
    /\ UNCHANGED <<exists, file, reader, buffered_lines, next_buffered, outcomes,
                   sink_log>>
    /\ UNCHANGED batch_vars

\* The records consume_line handed to the handler on line n, as entries of
\* the log of the sink.
sink_entries(n, calls) == [i \in DOMAIN calls |-> [line |-> n, record |-> calls[i]]]

\* What both loops of process_file do with one line, numbered n in the file:
\* consume_line, then `?` and the match on the outcome.
ConsumeAndCount(line, n, handler_ok) ==
    \E r \in {consume_line(parser, line, handler_ok)} :
        /\ parser' = r.parser
        /\ outcomes' = Append(outcomes, r.result)
        /\ sink_log' = sink_log \o sink_entries(n, r.calls)
        /\ IF r.result = "Err"
           THEN /\ pc' = "failed"
                /\ error' = "sink"
                /\ summary' = summary
           ELSE /\ pc' = pc
                /\ summary' = count_outcome(summary, r.result)
                /\ error' = error

\* One turn of the replay of the buffered lines.
ConsumeBuffered ==
    /\ pc = "buffered"
    /\ IF next_buffered <= Len(buffered_lines)
       THEN /\ \E handler_ok \in BOOLEAN :
                  ConsumeAndCount(buffered_lines[next_buffered], next_buffered,
                                  handler_ok)
            /\ next_buffered' = next_buffered + 1
       ELSE /\ pc' = "stream"
            /\ UNCHANGED <<next_buffered, parser, summary, outcomes, sink_log,
                           error>>
    /\ UNCHANGED <<exists, file, reader, buffered_lines>>
    /\ UNCHANGED batch_vars

\* Mutant of ConsumeStream: the streamed lines go through a parser of their
\* own, created with the detected delimiter, and not through the parser of
\* the buffered lines.
ConsumeStream_with_own_parser ==
    /\ pc = "stream"
    /\ IF reader < Len(file)
       THEN /\ \E handler_ok \in BOOLEAN :
                  \E r \in {consume_line(IF reader = Len(buffered_lines)
                                         THEN LineParser_new(parser.delimiter)
                                         ELSE parser,
                                         file[reader + 1], handler_ok)} :
                      /\ parser' = r.parser
                      /\ outcomes' = Append(outcomes, r.result)
                      /\ sink_log' = sink_log \o sink_entries(reader + 1, r.calls)
                      /\ IF r.result = "Err"
                         THEN /\ pc' = "failed"
                              /\ error' = "sink"
                              /\ summary' = summary
                         ELSE /\ pc' = pc
                              /\ summary' = count_outcome(summary, r.result)
                              /\ error' = error
            /\ reader' = reader + 1
       ELSE /\ pc' = "returned"
            /\ UNCHANGED <<reader, parser, summary, outcomes, sink_log, error>>
    /\ UNCHANGED <<exists, file, buffered_lines, next_buffered>>
    /\ UNCHANGED batch_vars

\* One turn of the loop over the rest of the file.
ConsumeStream ==
    /\ pc = "stream"
    /\ IF reader < Len(file)
       THEN /\ \E handler_ok \in BOOLEAN :
                  ConsumeAndCount(file[reader + 1], reader + 1, handler_ok)
            /\ reader' = reader + 1
       ELSE /\ pc' = "returned"
            /\ UNCHANGED <<reader, parser, summary, outcomes, sink_log, error>>
    /\ UNCHANGED <<exists, file, buffered_lines, next_buffered>>
    /\ UNCHANGED batch_vars

FileNext ==
    \/ Open
    \/ ReadError
    \/ ReadLookahead
    \/ Sniff
    \/ ConsumeBuffered
    \/ ConsumeStream


(***************************************************************************)
(* process_file as a function of what it reads: whether the path opens,    *)
(* the lines of the file, the number of the read_line call that fails and  *)
(* the number of the on_variant call that fails (0: none fails).  The      *)
(* calls of process_single_file go through this function.                  *)
(***************************************************************************)
\* The lookahead loop: the window, or "Err" when a read fails in it.
take_lookahead(lines, read_fails_at) ==
    LET n == Min(LOOKAHEAD_LINES, Len(lines))
    IN  IF read_fails_at \in 1..Min(LOOKAHEAD_LINES, Len(lines) + 1)
        THEN [result |-> "Err", window |-> <<>>]
        ELSE [result |-> "Ok", window |-> SubSeq(lines, 1, n)]

\* The two consume loops, which share the parser and the summary: the lines
\* from number n on, acc being the state reached before line n.
RECURSIVE consume_from(_, _, _, _, _)
consume_from(lines, n, read_fails_at, sink_fails_at, acc) ==
    LET streamed == n > Min(LOOKAHEAD_LINES, Len(lines))
        step(r) ==
            LET calls == acc.sink_calls \o sink_entries(n, r.calls)
            IN  IF r.result = "Err"
                THEN [acc EXCEPT !.result = "Err", !.error = "sink",
                                 !.parser = r.parser, !.sink_calls = calls,
                                 !.consumed = n]
                ELSE consume_from(lines, n + 1, read_fails_at, sink_fails_at,
                         [acc EXCEPT !.parser = r.parser, !.sink_calls = calls,
                                     !.consumed = n,
                                     !.summary = count_outcome(@, r.result)])
    IN  IF streamed /\ read_fails_at = n
        THEN [acc EXCEPT !.result = "Err", !.error = "read"]
        ELSE IF n > Len(lines) THEN acc
        ELSE Let(step, consume_line(acc.parser, lines[n],
                           Len(acc.sink_calls) + 1 # sink_fails_at))

\* What process_file hands back: Ok with the summary or Err with the error;
\* with it, the calls of the sink and the number of lines consumed.
returned_by(acc) ==
    [result |-> acc.result, error |-> acc.error, summary |-> acc.summary,
     sink_calls |-> acc.sink_calls, consumed |-> acc.consumed]

process_file(opens, lines, read_fails_at, sink_fails_at) ==
    LET failed(why) ==
            [result |-> "Err", error |-> why, summary |-> ParseSummary_default,
             sink_calls |-> <<>>, consumed |-> 0]
        buffered == take_lookahead(lines, read_fails_at)
    IN  IF ~opens THEN failed("open")
        ELSE IF buffered.result = "Err" THEN failed("read")
        ELSE IF buffered.window = <<>> THEN failed("empty")
        ELSE returned_by(
                 consume_from(lines, 1, read_fails_at, sink_fails_at,
                     [result |-> "Ok", error |-> "none",
                      parser |-> LineParser_new(detect_delimiter(buffered.window)),
                      summary |-> ParseSummary_default, sink_calls |-> <<>>,
                      consumed |-> 0]))

(***************************************************************************)
(* genostats.rs: process_single_file.                                      *)
(*                                                                         *)
(* The store and the file system are the environment of a call.  An Env    *)
(* says what they answer: the answer of has_file, the lines of the file,   *)
(* and the one call, if any, that fails (a call after a failed one is      *)
(* never made, so one failure point describes a run).                      *)
(*                                                                         *)
(* StatsStore::has_file and StatsStore::record_variant_in_tx answer here   *)
(* as their signatures allow, Result<bool> and Result<()>.  Their bodies   *)
(* in stats.rs return Ok(false) and Ok(()) alone, so the runs in which     *)
(* has_file answers true or the sink fails are runs of a store that uses   *)
(* the whole of its interface; what holds of every run of the model holds  *)
(* of the runs with the bodies of stats.rs, which are among them.          *)
(***************************************************************************)
\* The file a worker finds at a path that opens: no line at all, or rows
\* that reach beyond the lookahead window.
BatchRows == <<L_ROW, L_BAD_POSITION, L_ROW>>

FailurePoints ==
    {"none", "has_file", "open_connection", "transaction", "open", "read", "sink",
     "commit", "record_file"}

\* The failures a batch of the model meets: the sink fails on the first
\* row it is given, or the commit fails.  A file without lines is an Env of
\* its own, and so is a file the store has recorded.
BatchFailurePoints == {"none", "sink", "commit"}

Envs ==
    {e \in [recorded : BOOLEAN, lines : {<<>>, BatchRows}, fails : BatchFailurePoints,
            at : {0, 1}] :
        /\ e.fails = "sink" <=> e.at # 0
        /\ e.lines = <<>> => e.fails = "none"
        /\ e.recorded => e.fails = "none" /\ e.lines = BatchRows}

NoEnv == [recorded |-> FALSE, lines |-> <<>>, fails |-> "none", at |-> 0]

\* What process_single_file returns and the store calls it made, in order.
Run(result, message, events, parsed) ==
    [result |-> result, message |-> message, events |-> events, parsed |-> parsed,
     env |-> NoEnv]

NotParsed == process_file(FALSE, <<>>, 0, 0)

record_variant_events(parsed) == [i \in DOMAIN parsed.sink_calls |-> "record_variant"]

\* Mutant of store_file: record_file is called whether or not the commit
\* succeeded.
store_file_recording_any_commit(env) ==
    LET parsed == process_file(env.fails # "open", env.lines,
                               IF env.fails = "read" THEN env.at ELSE 0,
                               IF env.fails = "sink" THEN env.at ELSE 0)
        in_tx == <<"open_connection", "transaction">> \o record_variant_events(parsed)
    IN  IF env.fails = "open_connection"
        THEN Run("Err", "open_connection", <<"open_connection">>, NotParsed)
        ELSE IF env.fails = "transaction"
        THEN Run("Err", "transaction", <<"open_connection", "transaction">>, NotParsed)
        ELSE IF parsed.result = "Err"
        THEN Run("Err", parsed.error, in_tx, parsed)
        ELSE IF env.fails = "commit"
        THEN Run("Err", "commit", in_tx \o <<"commit", "record_file">>, parsed)
        ELSE IF env.fails = "record_file"
        THEN Run("Err", "record_file", in_tx \o <<"commit", "record_file">>, parsed)
        ELSE Run("Ok", "none", in_tx \o <<"commit", "record_file">>, parsed)

\* process_single_file from open_connection on.
store_file(env) ==
    LET parsed == process_file(env.fails # "open", env.lines,
                               IF env.fails = "read" THEN env.at ELSE 0,
                               IF env.fails = "sink" THEN env.at ELSE 0)
        in_tx == <<"open_connection", "transaction">> \o record_variant_events(parsed)
    IN  IF env.fails = "open_connection"
        THEN Run("Err", "open_connection", <<"open_connection">>, NotParsed)
        ELSE IF env.fails = "transaction"
        THEN Run("Err", "transaction", <<"open_connection", "transaction">>, NotParsed)
        ELSE IF parsed.result = "Err"
        THEN Run("Err", parsed.error, in_tx, parsed)
        ELSE IF env.fails = "commit"
        THEN Run("Err", "commit", in_tx \o <<"commit">>, parsed)
        ELSE IF env.fails = "record_file"
        THEN Run("Err", "record_file", in_tx \o <<"commit", "record_file">>, parsed)
        ELSE Run("Ok", "none", in_tx \o <<"commit", "record_file">>, parsed)

prepend_event(event, run) == [run EXCEPT !.events = <<event>> \o @]

process_single_file(skip_if_recorded, env) ==
    IF ~skip_if_recorded THEN store_file(env)
    ELSE IF env.fails = "has_file"
    THEN Run("Err", "has_file", <<"has_file">>, NotParsed)
    ELSE IF env.recorded
    THEN Run("Err", "skip file", <<"has_file">>, NotParsed)
    ELSE prepend_event("has_file", store_file(env))

\* A run together with the environment it met.
run_in(skip_if_recorded, env) ==
    [process_single_file(skip_if_recorded, env) EXCEPT !.env = env]

\* Mutant of is_failure: every error is taken for a failure, SkipFile too.
is_failure_any_error(run) == run.result = "Err"

\* err.downcast_ref::<SkipFile>().is_none() on the result of a run.
is_failure(run) == run.result = "Err" /\ run.message # "skip file"

\* The runs of process_single_file over the environments of the model, each
\* with its environment.
SingleFileRuns ==
    [skip_if_recorded \in BOOLEAN |->
        {run_in(skip_if_recorded, env) : env \in Envs}]

Paths == 1..MaxFiles

Workers == 1..max(MaxThreads, 1)

Idle == [pc |-> "idle", path |-> 0]

NotRun == Run("none", "none", <<>>, NotParsed)

\* The ascending sequence of the elements of a set of paths: the order of
\* files after sort() and dedup().
RECURSIVE sorted(_)
sorted(set) ==
    IF set = {} THEN <<>>
    ELSE LET least == CHOOSE p \in set : \A q \in set : p <= q
         IN  <<least>> \o sorted(set \ {least})

\* An input path is a file, a directory holding candidate files, or neither.
Inputs ==
    [kind : {"file"}, found : {{1}}]
        \cup [kind : {"dir"}, found : {1..k : k \in 0..MaxFiles}]
        \cup [kind : {"other"}, found : {{}}]

InputLists == {<<>>} \cup {<<i>> : i \in Inputs}
                  \cup {<<[kind |-> "file", found |-> {1}], i>> : i \in Inputs}

\* util.rs: collect_input_files
collect_input_files(inputs) ==
    IF inputs = <<>> THEN [result |-> "Err", files |-> <<>>]
    ELSE IF \E i \in DOMAIN inputs : inputs[i].kind = "other"
    THEN [result |-> "Err", files |-> <<>>]
    ELSE [result |-> "Ok",
          files |-> sorted(UNION {inputs[i].found : i \in DOMAIN inputs})]

\* Vec::truncate
truncate(v, len) == IF len < Len(v) THEN SubSeq(v, 1, len) ELSE v

FileIdle ==
    /\ exists = FALSE
    /\ file = <<>>
    /\ pc = "unused"
    /\ reader = 0
    /\ buffered_lines = <<>>
    /\ next_buffered = 1
    /\ parser = NoParser
    /\ summary = ParseSummary_default
    /\ outcomes = <<>>
    /\ sink_log = <<>>
    /\ error = "none"

Init ==
    /\ threads = 0
    /\ skip_recorded_files \in BOOLEAN
    /\ main_pc = "start"
    /\ files = <<>>
    /\ pending = {}
    /\ worker = [w \in Workers |-> Idle]
    /\ ran = [p \in Paths |-> NotRun]
    /\ failures = <<>>
    /\ mutex = 0
    /\ pb = 0
    /\ reported = <<>>
    /\ returned = "no"
    /\ FileIdle

\* run_genostats up to the discovery message: the checks of the inputs,
\* collect_input_files and the max_files truncation.
MaxFilesArgs == {None} \cup {Some(k) : k \in 0..MaxFiles}

\* Mutant of DiscoverWith: the list is not checked for emptiness after the
\* truncation.
DiscoverWith_unchecked(inputs, max_files) ==
    /\ main_pc = "start"
    /\ LET collected == collect_input_files(inputs)
           kept == IF max_files.some
                   THEN truncate(collected.files, max_files.val)
                   ELSE collected.files
       IN  IF inputs = <<>> \/ collected.result = "Err"
           THEN /\ main_pc' = "bailed"
                /\ returned' = "Err"
                /\ files' = files
           ELSE /\ main_pc' = "connect"
                /\ returned' = returned
                /\ files' = kept
    /\ UNCHANGED <<threads, skip_recorded_files, pending, worker, ran, failures,
                   mutex, pb, reported, file_vars>>

\* The same, for given args.inputs and args.max_files.
DiscoverWith(inputs, max_files) ==
    /\ main_pc = "start"
    /\ LET collected == collect_input_files(inputs)
           kept == IF max_files.some
                   THEN truncate(collected.files, max_files.val)
                   ELSE collected.files
       IN  IF inputs = <<>> \/ collected.result = "Err" \/ kept = <<>>
           THEN /\ main_pc' = "bailed"
                /\ returned' = "Err"
                /\ files' = files
           ELSE /\ main_pc' = "connect"
                /\ returned' = returned
                /\ files' = kept
    /\ UNCHANGED <<threads, skip_recorded_files, pending, worker, ran, failures,
                   mutex, pb, reported, file_vars>>

Discover ==
    \E inputs \in InputLists, max_files \in MaxFilesArgs :
        DiscoverWith(inputs, max_files)

\* StatsStore::connect, the progress bar, the failure list and the thread
\* pool of args.threads.max(1) workers; connect and build may fail.  With
\* the pool built, pool.install hands the files to the workers.
StartPool ==
    /\ main_pc = "connect"
    /\ \E ok \in BOOLEAN, args_threads \in 0..MaxThreads :
          IF ok
          THEN /\ main_pc' = "install"
               /\ threads' = max(args_threads, 1)
               /\ pending' = Range(files)
               /\ returned' = returned
          ELSE /\ main_pc' = "bailed"
               /\ returned' = "Err"
               /\ UNCHANGED <<threads, pending>>
    /\ UNCHANGED <<skip_recorded_files, files, worker, ran, failures, mutex, pb,
                   reported, file_vars>>

\* The workers of the pool.
Pool == 1..threads

\* A worker takes a file not started yet and runs process_single_file.
StartFile(w) ==
    /\ main_pc = "install"
    /\ w \in Pool
    /\ worker[w].pc = "idle"
    /\ \E path \in pending, run \in SingleFileRuns[skip_recorded_files] :
          /\ pending' = pending \ {path}
          /\ ran' = [ran EXCEPT ![path] = run]
          /\ worker' = [worker EXCEPT ![w] = [pc |-> "result", path |-> path]]
    /\ UNCHANGED <<threads, skip_recorded_files, main_pc, files, failures, mutex,
                   pb, reported, returned, file_vars>>

\* Mutant of LockFailures: the worker goes on to the push without waiting for
\* the mutex to be free.
LockFailures_without_waiting(w) ==
    /\ worker[w].pc = "result"
    /\ is_failure(ran[worker[w].path])
    /\ mutex' = w
    /\ worker' = [worker EXCEPT ![w].pc = "locked"]
    /\ UNCHANGED <<threads, skip_recorded_files, main_pc, files, pending, ran,
                   failures, pb, reported, returned, file_vars>>

\* failures.lock(), for a result that is an error other than SkipFile.
LockFailures(w) ==
    /\ worker[w].pc = "result"
    /\ is_failure(ran[worker[w].path])
    /\ mutex = 0
    /\ mutex' = w
    /\ worker' = [worker EXCEPT ![w].pc = "locked"]
    /\ UNCHANGED <<threads, skip_recorded_files, main_pc, files, pending, ran,
                   failures, pb, reported, returned, file_vars>>

\* The entry guard.push appends for a worker.
failure_entry(w) ==
    [path |-> worker[w].path, message |-> ran[worker[w].path].message]

\* Mutant of PushFailure: the entry replaces the list instead of being
\* appended to it.
PushFailure_overwriting(w) ==
    /\ worker[w].pc = "locked"
    /\ failures' = <<failure_entry(w)>>
    /\ mutex' = 0
    /\ worker' = [worker EXCEPT ![w].pc = "inc"]
    /\ UNCHANGED <<threads, skip_recorded_files, main_pc, files, pending, ran, pb,
                   reported, returned, file_vars>>

\* guard.push((path, message)); the guard is dropped at the end of the block.
PushFailure(w) ==
    /\ worker[w].pc = "locked"
    /\ failures' = Append(failures, failure_entry(w))
    /\ mutex' = 0
    /\ worker' = [worker EXCEPT ![w].pc = "inc"]
    /\ UNCHANGED <<threads, skip_recorded_files, main_pc, files, pending, ran, pb,
                   reported, returned, file_vars>>

\* Whether the closure of worker w has reached pb.inc(1).
at_inc(w) ==
    \/ worker[w].pc = "inc"
    \/ worker[w].pc = "result" /\ ~is_failure(ran[worker[w].path])

\* Mutant of PbInc: the progress bar advances for the files that did not
\* fail only.
PbInc_unless_failed(w) ==
    /\ at_inc(w)
    /\ pb' = IF is_failure(ran[worker[w].path]) THEN pb ELSE pb + 1
    /\ worker' = [worker EXCEPT ![w] = Idle]
    /\ UNCHANGED <<threads, skip_recorded_files, main_pc, files, pending, ran,
                   failures, mutex, reported, returned, file_vars>>

\* pb.inc(1), which ends the closure.
PbInc(w) ==
    /\ at_inc(w)
    /\ pb' = pb + 1
    /\ worker' = [worker EXCEPT ![w] = Idle]
    /\ UNCHANGED <<threads, skip_recorded_files, main_pc, files, pending, ran,
                   failures, mutex, reported, returned, file_vars>>

\* pool.install returns once for_each has run the closure on every file;
\* then pb.finish_with_message.
Join ==
    /\ main_pc = "install"
    /\ pending = {}
    /\ \A w \in Workers : worker[w].pc = "idle"
    /\ main_pc' = "report"
    /\ UNCHANGED <<threads, skip_recorded_files, files, pending, worker, ran,
                   failures, mutex, pb, reported, returned, file_vars>>

\* Mutant of Report: a failure list that is not empty ends run_genostats with
\* an error.
Report_aborting_on_failures ==
    /\ main_pc = "report"
    /\ reported' = failures
    /\ main_pc' = IF failures = <<>> THEN "summary" ELSE "returned"
    /\ returned' = IF failures = <<>> THEN returned ELSE "Err"
    /\ UNCHANGED <<threads, skip_recorded_files, files, pending, worker, ran,
                   failures, mutex, pb, file_vars>>

\* The failure list is taken out of its mutex and printed.
Report ==
    /\ main_pc = "report"
    /\ reported' = failures
    /\ main_pc' = "summary"
    /\ UNCHANGED <<threads, skip_recorded_files, files, pending, worker, ran,
                   failures, mutex, pb, returned, file_vars>>

\* store.summary()? and write_summary_json(..)?, either of which may fail.
Summarize ==
    /\ main_pc = "summary"
    /\ \E ok \in BOOLEAN : returned' = IF ok THEN "Ok" ELSE "Err"
    /\ main_pc' = "returned"
    /\ UNCHANGED <<threads, skip_recorded_files, files, pending, worker, ran,
                   failures, mutex, pb, reported, file_vars>>

Next ==
    \/ Discover
    \/ StartPool
    \/ \E w \in Workers : StartFile(w)
    \/ \E w \in Workers : LockFailures(w)
    \/ \E w \in Workers : PushFailure(w)
    \/ \E w \in Workers : PbInc(w)
    \/ Join
    \/ Report
    \/ Summarize

Spec == Init /\ [][Next]_vars

\* The steps of the thread that called run_genostats.
MainStep == Discover \/ StartPool \/ Join \/ Report \/ Summarize

\* The steps of the closure on one worker of the pool.
WorkerStep(w) == StartFile(w) \/ LockFailures(w) \/ PushFailure(w) \/ PbInc(w)

\* run_genostats with threads that keep running: the calling thread is not
\* stopped for ever, each rayon worker that can take a step does so in the
\* end, and process_single_file returns (StartFile holds its whole run).
FairSpec ==
    /\ Init
    /\ [][Next]_vars
    /\ WF_vars(MainStep)
    /\ \A w \in Workers : WF_vars(WorkerStep(w))

(***************************************************************************)
(* One call of process_file on its own, line by line.                      *)
(***************************************************************************)
BatchIdle ==
    /\ threads = 0
    /\ skip_recorded_files = FALSE
    /\ main_pc = "unused"
    /\ files = <<>>
    /\ pending = {}
    /\ worker = [w \in Workers |-> Idle]
    /\ ran = [p \in Paths |-> NotRun]
    /\ failures = <<>>
    /\ mutex = 0
    /\ pb = 0
    /\ reported = <<>>
    /\ returned = "no"

InitFile == FileInit /\ BatchIdle

SpecFile == InitFile /\ [][FileNext]_vars

(***************************************************************************)
(* Claims.                                                                 *)
(***************************************************************************)
\* The parallel phase of run_genostats has returned.
BatchEnded == main_pc \in {"report", "summary", "returned"}

\* The entries of the failure list for a path.
EntriesFor(p) == {i \in DOMAIN failures : failures[i].path = p}

\* A run that returned an error other than SkipFile.
NonSkipError(run) == run.result = "Err" /\ run.message # "skip file"

\* A run on a file with rows, with a store that works and does not make the
\* worker skip the file.
GoodEnv(run) ==
    /\ run.env.lines # <<>>
    /\ run.env.fails = "none"
    /\ ~(skip_recorded_files /\ run.env.recorded)

\* C1: under every interleaving of the workers, each file of the list is run
\* once (a file that has run is not pending again, and when the batch ends
\* every file has run), and the failure list holds one entry (path, message)
\* for each file whose run returned an error other than SkipFile and none
\* for any other file.  With 3 files of which one has no line and two are
\* good, wherever the empty one stands, the two good files are parsed,
\* committed and recorded and the failure list is the one entry of the empty
\* file.
C1_FailureIsolation ==
    /\ \A p \in Paths : ran[p] # NotRun => p \in Range(files) /\ p \notin pending
    /\ \A i \in DOMAIN failures :
          /\ EntriesFor(failures[i].path) = {i}
          /\ NonSkipError(ran[failures[i].path])
          /\ failures[i].message = ran[failures[i].path].message
    /\ BatchEnded =>
          /\ \A p \in Range(files) :
                /\ ran[p] # NotRun
                /\ NonSkipError(ran[p]) => Cardinality(EntriesFor(p)) = 1
          /\ \A p \in Range(files) :
                (/\ Len(files) = 3
                 /\ ran[p].env.lines = <<>>
                 /\ \A q \in Range(files) \ {p} : GoodEnv(ran[q]))
                => /\ failures = <<[path |-> p, message |-> "empty"]>>
                   /\ \A q \in Range(files) \ {p} :
                         /\ ran[q].result = "Ok"
                         /\ ran[q].parsed.result = "Ok"
                         /\ ran[q].parsed.consumed = Len(ran[q].env.lines)
                         /\ ran[q].events[Len(ran[q].events)] = "record_file"

\* C1, witness: two workers have finished a batch of three files, the second
\* of them empty.
C1_Witness ==
    /\ BatchEnded
    /\ threads = 2
    /\ Len(files) = 3
    /\ ran[2].env.lines = <<>>
    /\ ran[1].result = "Ok"
    /\ ran[3].result = "Ok"
    /\ failures = <<[path |-> 2, message |-> "empty"]>>

\* C2: when the sink fails on a Parsed row, process_file returns that error
\* with the failing row as the last line it consumed (the failing call is
\* the last call of the sink and no later line is classified), it returns
\* no summary, the run of the file makes neither the commit nor the
\* record_file call and returns the error, and the failure list holds one
\* entry for the path once the worker has reported, hence when the batch
\* ends.
C2_SinkErrorAborts ==
    \A p \in Paths :
        (ran[p] # NotRun /\ ran[p].env.fails = "sink") =>
            LET run == ran[p]
                calls == run.parsed.sink_calls
            IN  /\ Len(calls) = run.env.at
                /\ run.parsed.result = "Err"
                /\ run.parsed.error = "sink"
                /\ run.parsed.consumed = calls[Len(calls)].line
                /\ run.result = "Err"
                /\ run.message = "sink"
                /\ "commit" \notin Range(run.events)
                /\ "record_file" \notin Range(run.events)
                /\ Cardinality(EntriesFor(p)) <= 1
                /\ BatchEnded =>
                      /\ EntriesFor(p) # {}
                      /\ \A i \in EntriesFor(p) :
                             failures[i] = [path |-> p, message |-> "sink"]

\* C2, witness: a batch has ended in which the sink failed on the first row
\* of the second file, a file with rows after that one.
C2_Witness ==
    /\ BatchEnded
    /\ ran[2].env.fails = "sink"
    /\ ran[2].parsed.consumed = 1
    /\ Len(ran[2].env.lines) > 1
    /\ ran[2].parsed.sink_calls # <<>>
    /\ Cardinality(EntriesFor(2)) = 1
    /\ ran[1].result = "Ok"

\* The lines of a file that are blank, and those that are comments.
IsBlank(line) == trim(line) = <<>>

IsCommentLine(line) == ~IsBlank(line) /\ is_comment(trim(line))

\* The lines of the file on which consume_line returned a given outcome.
LinesWith(outcome) == {i \in DOMAIN outcomes : outcomes[i] = outcome}

\* C3: process_file on a path that does not open, or on a file from which
\* no line is read, never reaches the consume loops nor its return of a
\* summary and never invokes the sink: it ends with the open error, or with
\* the empty-file error or the error of the read.  On a file with at least
\* one line, whatever the lines, the only errors it ends with are the error
\* of a read and the error of the sink.
C3_FailsOnlyOnOpenOrEmpty ==
    /\ (~exists \/ file = <<>>) =>
          /\ pc \in {"open", "lookahead", "sniff", "failed"}
          /\ sink_log = <<>>
          /\ outcomes = <<>>
    /\ (~exists /\ pc # "open") => pc = "failed" /\ error = "open"
    /\ (exists /\ file = <<>> /\ pc = "failed") => error \in {"empty", "read"}
    /\ (exists /\ file # <<>> /\ pc = "failed") => error \in {"read", "sink"}

\* C3, witness: process_file has returned a summary for a file made of a
\* comment line and a blank line.
C3_Witness ==
    /\ pc = "returned"
    /\ file = <<L_NOTE, L_BLANK>>
    /\ summary = ParseSummary_default
    /\ sink_log = <<>>

\* C4: when process_file returns a summary, consume_line has been called
\* once on each line of the file, the sink has been invoked once for each
\* line whose outcome is Parsed, in the order of the lines, and for no other
\* line, and variant_count is the number of invocations of the sink.
C4_SinkOncePerParsedRow ==
    pc = "returned" =>
        /\ Len(outcomes) = Len(file)
        /\ \A k \in 1..(Len(sink_log) - 1) : sink_log[k].line < sink_log[k + 1].line
        /\ {sink_log[k].line : k \in DOMAIN sink_log} = LinesWith("Parsed")
        /\ summary.variant_count = Len(sink_log)

\* C4, witness: a summary returned for a header, a row that parses and a row
\* that does not, the sink called for the second line alone.
C4_Witness ==
    /\ pc = "returned"
    /\ file = <<L_HEADER, L_ROW, L_BAD_POSITION>>
    /\ outcomes = <<"Ignored", "Parsed", "Skipped">>
    /\ Len(sink_log) = 1
    /\ sink_log[1].line = 2
    /\ summary.variant_count = 1

\* A file with no blank line, no comment line and one delimiter: every line
\* that holds a delimiter holds the delimiter of the parser.
PlainFile ==
    \A i \in DOMAIN file :
        /\ ~IsBlank(file[i])
        /\ ~IsCommentLine(file[i])
        /\ sniff_line(file[i]) \in {parser.delimiter, "continue"}

\* The first line of the file is a header under the delimiter of the parser.
FirstLineIsHeader == looks_like_header(parse_fields(parser, file[1]))

\* C5: when process_file returns a summary for a file with no blank line, no
\* comment line and one delimiter, variant_count + skipped_rows is the
\* number of lines, less one when the first line is a header.
C5_ParsedPlusSkipped ==
    (pc = "returned" /\ PlainFile) =>
        summary.variant_count + summary.skipped_rows =
            Len(file) - (IF FirstLineIsHeader THEN 1 ELSE 0)

\* C5, witness: a summary returned for a header and two header-like lines
\* after it, which count as data rows.
C5_Witness ==
    /\ pc = "returned"
    /\ file = <<L_HEADER, L_ROW, L_HEADER>>
    /\ PlainFile
    /\ summary.variant_count + summary.skipped_rows = 2

\* Line i of the file is neither blank nor a comment.
Substantive(i) == ~IsBlank(file[i]) /\ ~IsCommentLine(file[i])

\* Line i is the first line of the file that is neither blank nor a comment.
FirstSubstantive(i) ==
    /\ Substantive(i)
    /\ \A j \in 1..(i - 1) : ~Substantive(j)

\* The tokens of line i under the delimiter of the parser.
Fields(i) == parse_fields(parser, file[i])

\* A comment line whose text after the marker is header-like under the
\* delimiter of the parser: a comment-header candidate.
IsCandidate(line) ==
    /\ IsCommentLine(line)
    /\ consume_comment(LineParser_new(parser.delimiter), trim(line)).comment_header.some

\* The counters of the summary are those of the outcomes so far.
CountersFollowOutcomes ==
    /\ summary.variant_count = Cardinality(LinesWith("Parsed"))
    /\ summary.skipped_rows = Cardinality(LinesWith("Skipped"))

\* The example of a header name the specification gives with RSID and snp.
MarkerName == <<"M", "a", "r", "k", "e", "r", " ", "N", "a", "m", "e">>

\* Line i, just consumed, has been consumed as the header.
ConsumedAsHeader(i) ==
    /\ outcomes[i] = "Ignored"
    /\ parser.header = Some(Fields(i))
    /\ \A k \in DOMAIN sink_log : sink_log[k].line # i
    /\ CountersFollowOutcomes

\* C6: the first line that is neither blank nor a comment, when its first
\* token normalizes to an alias of rsid, is consumed as the header under each
\* delimiter: its outcome is Ignored, it changes no counter, the sink is not
\* invoked for it and its tokens are the header, whether or not a comment
\* header was recorded before it.  The names `RSID`, `snp` and `Marker Name`
\* are such first tokens.
C6_HeaderLineConsumed ==
    \A i \in {Len(outcomes)} \ {0} :
        (/\ error # "sink"
         /\ FirstSubstantive(i)
         /\ \/ looks_like_header(Fields(i))
            \/ Fields(i)[1] = MarkerName)
        => ConsumedAsHeader(i)

\* The header the comment line `# rsid<TAB>chromosome<TAB>position<TAB>genotype`
\* gives under the delimiter of the parser: the tokens after its marker.
CommentDerivedHeader == parse_fields(parser, L_HEADER)

\* Line i follows the comment line of C7, which is the only header-like line
\* before it, and is the first line neither blank nor a comment, and not a
\* header.
AfterCommentHeader(i) ==
    /\ \E c \in 1..(i - 1) : file[c] = L_COMMENT_HEADER
    /\ IsCandidate(L_COMMENT_HEADER)
    /\ \A j \in 1..(i - 1) : IsCandidate(file[j]) => file[j] = L_COMMENT_HEADER
    /\ FirstSubstantive(i)
    /\ ~looks_like_header(Fields(i))

\* C7: when the comment line `# rsid<TAB>chromosome<TAB>position<TAB>genotype`
\* is the only header-like line before the first line that is neither blank
\* nor a comment, and that line is not a header, the line is classified as a
\* data row (Parsed, or the error of the sink, or Skipped: not Ignored), the
\* header is the one of the comment from then on, and no later line is
\* consumed as a header.
C7_CommentHeaderFallback ==
    \A i \in DOMAIN outcomes :
        AfterCommentHeader(i) =>
            /\ outcomes[i] \in {"Parsed", "Skipped", "Err"}
            /\ parser.header = Some(CommentDerivedHeader)
            /\ \A k \in (i + 1)..Len(outcomes) :
                   Substantive(k) => outcomes[k] \in {"Parsed", "Skipped", "Err"}
            /\ CountersFollowOutcomes

\* C7, witness: a summary returned for the comment line, a row of two fields
\* and a row of four, with the four names of the comment as the header.
C7_Witness ==
    /\ pc = "returned"
    /\ file = <<L_COMMENT_HEADER, L_TWO_FIELDS, L_ROW>>
    /\ outcomes = <<"Ignored", "Skipped", "Parsed">>
    /\ Len(parser.header.val) = 4
    /\ parser.header.val[4] = <<"g", "e", "n", "o", "t", "y", "p", "e">>
    /\ AfterCommentHeader(2)

\* The four names of the claim, and the name extra_k for k below 10.
FourNames ==
    << <<"r", "s", "i", "d">>,
       <<"c", "h", "r", "o", "m", "o", "s", "o", "m", "e">>,
       <<"p", "o", "s", "i", "t", "i", "o", "n">>,
       <<"g", "e", "n", "o", "t", "y", "p", "e">> >>

ExtraName(k) == <<"e", "x", "t", "r", "a", "_", DIGITS[k + 1]>>

\* The header the claim expects for n tokens.
ExpectedDefaultHeader(n) ==
    [k \in 1..n |-> IF k <= 4 THEN FourNames[k] ELSE ExtraName(k - 5)]

\* Line i is the first data line of a file with no header line and no
\* comment-header candidate.
FirstRowOfHeaderless(i) ==
    /\ FirstSubstantive(i)
    /\ ~looks_like_header(Fields(i))
    /\ \A j \in 1..(i - 1) : ~IsCandidate(file[j])

\* C8: once the first data line of a file with no header line and no
\* comment-header candidate has been consumed, the header is the first n of
\* the names rsid, chromosome, position, genotype when the line has n <= 4
\* tokens, and those four followed by extra_0 .. extra_(n-5) when n > 4; it
\* has n names.
C8_DefaultHeader ==
    \A i \in DOMAIN outcomes :
        FirstRowOfHeaderless(i) =>
            /\ parser.header.some
            /\ parser.header.val = ExpectedDefaultHeader(Len(Fields(i)))
            /\ Len(parser.header.val) = Len(Fields(i))

\* C8, witness: a file whose first line has six tokens has been consumed
\* and the header ends with extra_0 and extra_1.
C8_Witness ==
    /\ pc = "returned"
    /\ file = <<L_SIX_FIELDS, L_NO_CALL>>
    /\ FirstRowOfHeaderless(1)
    /\ Len(parser.header.val) = 6
    /\ parser.header.val[5] = <<"e", "x", "t", "r", "a", "_", "0">>
    /\ parser.header.val[6] = <<"e", "x", "t", "r", "a", "_", "1">>

\* Line i is a data row: neither blank nor a comment, and not the line
\* consumed as the header.
IsDataRow(i) ==
    /\ Substantive(i)
    /\ ~(FirstSubstantive(i) /\ looks_like_header(Fields(i)))

\* A field of the row resolves to a non-empty value: a column named by one
\* of its aliases holds one.
NormalizedAliases ==
    [key \in DOMAIN alias_map |-> {normalize_name(a) : a \in Range(alias_map[key])}]

Resolves(row_map, key) ==
    \E name \in DOMAIN row_map \cap NormalizedAliases[key] : row_map[name] # <<>>

\* The requirement of the claim on a row.
Required(row_map) ==
    /\ Resolves(row_map, "rsid")
    /\ Resolves(row_map, "chromosome")
    /\ Resolves(row_map, "position")
    /\ parse_i64_ok(lookup(row_map, "position").val)
    /\ \/ Resolves(row_map, "genotype")
       \/ Resolves(row_map, "allele1")
       \/ Resolves(row_map, "allele2")

\* C9: the data row just consumed has the outcome Parsed (the error of the
\* sink when the sink fails) if and only if, under the header of the parser,
\* rsid and chromosome resolve to non-empty values, position resolves to a
\* value that parses as an integer, and genotype, allele1 or allele2 is not
\* empty; otherwise its outcome is Skipped.  Under the header SNP, Chr, Pos,
\* Allele1, Allele2 the row rs4, 1, 100 with no allele is Skipped and the
\* same row with allele1 alone is Parsed.
C9_RequiredFields ==
    \A i \in {Len(outcomes)} \ {0} :
        /\ IsDataRow(i) =>
              /\ parser.header.some
              /\ IF Let(Required, build_row_map(parser.header.val, Fields(i)))
                 THEN outcomes[i] \in {"Parsed", "Err"}
                 ELSE outcomes[i] = "Skipped"
        /\ (i > 1 /\ file[1] = L_ALLELE_HEADER) =>
              /\ file[i] = L_NO_CALL => outcomes[i] = "Skipped"
              /\ file[i] = L_ALLELE1_ONLY => outcomes[i] \in {"Parsed", "Err"}

\* C9, witness: under the allele header the row without a call has been
\* skipped and the row with allele1 alone parsed.
C9_Witness ==
    /\ pc = "returned"
    /\ file = <<L_ALLELE_HEADER, L_NO_CALL, L_ALLELE1_ONLY>>
    /\ outcomes = <<"Ignored", "Skipped", "Parsed">>
    /\ summary = [variant_count |-> 1, skipped_rows |-> 1]

\* The lines of the window that are neither blank nor comments.
SubstantiveInWindow ==
    {i \in DOMAIN buffered_lines :
        ~IsBlank(buffered_lines[i]) /\ ~IsCommentLine(buffered_lines[i])}

HasChar(line, c) == \E k \in DOMAIN line : line[k] = c

\* More than one whitespace-separated token: whitespace inside the trimmed
\* line.
MultiToken(line) == \E k \in DOMAIN trim(line) : is_whitespace(trim(line)[k])

Qualifies(line) == HasChar(line, "\t") \/ HasChar(line, ",") \/ MultiToken(line)

\* C10: the delimiter detect_delimiter returned for the window is Tab when
\* the first line of the window that is neither blank nor a comment holds a
\* tab, whatever else it holds; Comma when it holds a comma and no tab;
\* Space when it holds neither and has more than one whitespace-separated
\* token; and Tab when no such line of the window holds a tab, a comma or
\* more than one token.
C10_DelimiterPriority ==
    parser.delimiter # "unset" =>
        /\ \A i \in SubstantiveInWindow :
              (\A j \in SubstantiveInWindow : i <= j) =>
                  LET first == buffered_lines[i]
                  IN  /\ HasChar(first, "\t") => parser.delimiter = "Tab"
                      /\ (HasChar(first, ",") /\ ~HasChar(first, "\t")) =>
                             parser.delimiter = "Comma"
                      /\ (/\ ~HasChar(first, ",")
                          /\ ~HasChar(first, "\t")
                          /\ MultiToken(first)) => parser.delimiter = "Space"
        /\ (\A i \in SubstantiveInWindow : ~Qualifies(buffered_lines[i])) =>
              parser.delimiter = "Tab"

\* C10, witness: the window opens with a comment and a line that holds tabs
\* and a comma, and the delimiter is Tab.
C10_Witness ==
    /\ pc = "buffered"
    /\ buffered_lines = <<L_SLASH_HEADER, L_TAB_AND_COMMA>>
    /\ parser.delimiter = "Tab"

\* The fields the claim gives for the line `"rs123","1, extra",100,AA`, and
\* those of the header rsid,chr,pos,gt,"a ""b"", c".
QuotedRowFields ==
    << <<"r", "s", "1", "2", "3">>,
       <<"1", ",", " ", "e", "x", "t", "r", "a">>,
       <<"1", "0", "0">>,
       <<"A", "A">> >>

EscapedHeaderFields ==
    << <<"r", "s", "i", "d">>,
       <<"c", "h", "r">>,
       <<"p", "o", "s">>,
       <<"g", "t">>,
       <<"a", " ", "\"", "b", "\"", ",", " ", "c">> >>

\* C11: in comma mode the line `"rs123","1, extra",100,AA`, once consumed,
\* has been tokenized to the four fields rs123 / 1, extra / 100 / AA (the
\* comma inside the quotes does not split, the quotes are removed) and the
\* record handed to the sink for it holds rs123; the header
\* rsid,chr,pos,gt,"a ""b"", c", once consumed as the header, leaves five
\* names, the last being a "b", c with one literal quote for each doubled
\* quote.
C11_CsvQuoting ==
    parser.delimiter = "Comma" =>
        \A i \in {Len(outcomes)} \ {0} :
            /\ file[i] = L_CSV_QUOTED =>
                  /\ Fields(i) = QuotedRowFields
                  /\ outcomes[i] \in {"Parsed", "Err"} =>
                        sink_log[Len(sink_log)] =
                            [line |-> i, record |-> [_rsid |-> QuotedRowFields[1]]]
            /\ (file[i] = L_CSV_ESCAPED_HEADER /\ FirstSubstantive(i)) =>
                  /\ outcomes[i] = "Ignored"
                  /\ parser.header = Some(EscapedHeaderFields)

\* C11, witness: the quoted header and the quoted row have been consumed in
\* comma mode, the row parsed with `1, extra` as its chromosome.
C11_Witness ==
    /\ pc = "returned"
    /\ parser.delimiter = "Comma"
    /\ file = <<L_CSV_ESCAPED_HEADER, L_CSV_QUOTED>>
    /\ outcomes = <<"Ignored", "Parsed">>
    /\ parser.header.val[5] = EscapedHeaderFields[5]
    /\ sink_log[1].record._rsid = QuotedRowFields[1]

\* The files whose closure has run to its end: they have run and no worker
\* is on them.
Completed ==
    {p \in Paths : ran[p] # NotRun /\ \A w \in Workers : worker[w].path # p}

\* C13: under every interleaving of the workers the progress counter is the
\* number of files whose closure has ended, whatever their result (Ok, skip,
\* failure): it never exceeds the number of files and it is the number of
\* files once the parallel phase has ended.
C13_ProgressOncePerFile ==
    /\ pb = Cardinality(Completed)
    /\ pb <= Len(files)
    /\ BatchEnded => pb = Len(files)

\* C13, witness: a batch of three files has ended, one stored, one skipped
\* as recorded and one failed, and the counter is 3.
C13_Witness ==
    /\ BatchEnded
    /\ threads = 2
    /\ Len(files) = 3
    /\ ran[1].result = "Ok"
    /\ ran[2].message = "skip file"
    /\ NonSkipError(ran[3])
    /\ pb = 3

\* C14: a run with skip-if-recorded requested on a file the store reports as
\* recorded makes the has_file call and no other (no connection, no
\* transaction, no parse, no record_variant, no record_file), returns
\* SkipFile, and the path never gets an entry in the failure list; a run
\* without skip-if-recorded does not call has_file, starts with the
\* connection and, unless the connection or the transaction fails, goes
\* on to parse the file.
C14_SoftSkip ==
    \A p \in Paths :
        ran[p] # NotRun =>
            /\ (skip_recorded_files /\ ran[p].env.recorded) =>
                  /\ ran[p].events = <<"has_file">>
                  /\ ran[p].parsed = NotParsed
                  /\ ran[p].result = "Err"
                  /\ ran[p].message = "skip file"
                  /\ EntriesFor(p) = {}
            /\ ~skip_recorded_files =>
                  /\ "has_file" \notin Range(ran[p].events)
                  /\ ran[p].events[1] = "open_connection"
                  /\ ran[p].env.fails \notin {"open_connection", "transaction"} =>
                        /\ SubSeq(ran[p].events, 1, 2) =
                               <<"open_connection", "transaction">>
                        /\ ran[p].env.lines # <<>> => ran[p].parsed.consumed >= 1
                  /\ ran[p].env.recorded =>
                        /\ ran[p].result = "Ok"
                        /\ ran[p].parsed.consumed = Len(ran[p].env.lines)

\* C14, witness: a batch with skip-if-recorded has ended; its first file was
\* recorded and was skipped, its second was stored, and the failure list is
\* empty.
C14_Witness ==
    /\ BatchEnded
    /\ skip_recorded_files
    /\ ran[1].env.recorded
    /\ ran[1].events = <<"has_file">>
    /\ ran[2].result = "Ok"
    /\ failures = <<>>
    /\ pb = Len(files)

\* The inputs with which the claim has run_genostats fail: no input, a
\* discovery that finds no file, or a max_files that leaves no file.
NothingToProcess(inputs, max_files) ==
    \/ inputs = <<>>
    \/ \A i \in DOMAIN inputs : inputs[i].kind # "other" /\ inputs[i].found = {}
    \/ max_files = Some(0)

\* C15: with an empty input list, a discovery that yields no file or a
\* max_files of zero, the step of run_genostats from its entry returns an
\* error straight away: it does not reach StatsStore::connect, builds no
\* pool, hands no file to a worker and runs none.
C15_FailsBeforeConnect ==
    [][main_pc = "start" =>
          \A inputs \in InputLists, max_files \in MaxFilesArgs :
              (NothingToProcess(inputs, max_files) /\ DiscoverWith(inputs, max_files)) =>
                  /\ main_pc' = "bailed"
                  /\ returned' = "Err"
                  /\ threads' = 0
                  /\ pending' = {}
                  /\ \A p \in Paths : ran'[p] = NotRun
                  /\ pb' = 0]_vars

\* C15, witness: run_genostats has returned an error with no file list, no
\* pool and no file run.
C15_Witness ==
    /\ main_pc = "bailed"
    /\ returned = "Err"
    /\ files = <<>>
    /\ threads = 0
    /\ \A p \in Paths : ran[p] = NotRun

\* C16: once the pool runs the closure over a non-empty file list, with
\* workers that keep being scheduled, run_genostats comes to the end of the
\* parallel phase with every file completed, reports the failure list, and
\* goes on to the store summary and returns; during the parallel phase and
\* the report it has not returned, however many files failed.
C16_BatchCompletes ==
    /\ [](main_pc \in {"install", "report", "summary"} => returned = "no")
    /\ (main_pc = "install")
          ~> (/\ main_pc = "summary"
              /\ pending = {}
              /\ \A w \in Workers : worker[w] = Idle
              /\ \A p \in Range(files) : ran[p] # NotRun
              /\ pb = Len(files)
              /\ reported = failures)
    /\ (main_pc = "summary") ~> (main_pc = "returned")

\* C16, witness: run_genostats has returned Ok after a batch of several
\* files every one of which failed.
C16_Witness ==
    /\ main_pc = "returned"
    /\ returned = "Ok"
    /\ Len(files) >= 2
    /\ Len(reported) = Len(files)
    /\ pb = Len(files)

\* The store calls that may come just before a store call of one file.
MayPrecede(event) ==
    CASE event = "has_file" -> {}
      [] event = "open_connection" -> {"has_file"}
      [] event = "transaction" -> {"open_connection"}
      [] event = "record_variant" -> {"transaction", "record_variant"}
      [] event = "commit" -> {"transaction", "record_variant"}
      [] event = "record_file" -> {"commit"}

\* C17: the store calls of one file come in the order pre-check, open
\* connection, begin transaction, record_variant calls (one for each sink
\* call of the parse, between the transaction and its commit), commit,
\* record_file; record_file is called at most once, after a commit that
\* succeeded, and never when the parse, the sink or the commit failed.
C17_StoreEventOrder ==
    \A p \in Paths :
        ran[p] # NotRun =>
            LET events == ran[p].events
                calls(event) == {i \in DOMAIN events : events[i] = event}
            IN  /\ \A i \in DOMAIN events :
                      IF i = 1
                      THEN events[i] \in {"has_file", "open_connection"}
                      ELSE events[i - 1] \in MayPrecede(events[i])
                /\ Cardinality(calls("record_variant")) = Len(ran[p].parsed.sink_calls)
                /\ Cardinality(calls("record_file")) <= 1
                /\ calls("record_file") # {} =>
                      /\ ran[p].env.fails # "commit"
                      /\ ran[p].parsed.result = "Ok"
                      /\ events[Len(events)] = "record_file"
                /\ (\/ ran[p].parsed.result = "Err"
                    \/ ran[p].env.fails \in {"sink", "commit"}) =>
                      calls("record_file") = {}

\* C17, witness: one file was stored with several record_variant calls and
\* then recorded, and the commit of another file failed.
C17_Witness ==
    \E p, q \in Paths :
        /\ ran[p].result = "Ok"
        /\ Len(ran[p].parsed.sink_calls) >= 2
        /\ ran[p].events[Len(ran[p].events)] = "record_file"
        /\ ran[q].env.fails = "commit"
        /\ ran[q].events[Len(ran[q].events)] = "commit"

\* All the lines from number n on fed in order, once each, to one parser
\* whose handler succeeds: the outcomes, the counters and the records handed
\* to the handler, acc being what the lines before n gave.
RECURSIVE FeedAll(_, _, _)
FeedAll(lines, n, acc) ==
    LET next(r) ==
            FeedAll(lines, n + 1,
                    [parser |-> r.parser,
                     outcomes |-> Append(acc.outcomes, r.result),
                     summary |-> count_outcome(acc.summary, r.result),
                     sink_log |-> acc.sink_log \o sink_entries(n, r.calls)])
    IN  IF n > Len(lines) THEN acc
        ELSE Let(next, consume_line(acc.parser, lines[n], TRUE))

\* The lines of the file that fall in the lookahead window.
Window == SubSeq(file, 1, Min(LOOKAHEAD_LINES, Len(file)))

\* C18: when process_file returns Ok, its counters, the outcomes of its
\* lines and the sequence of records given to the sink are those of feeding
\* every line of the file, in order and once, to a single parser created
\* with the delimiter detected from the lookahead window, whether the line
\* lies in the window or beyond it.
C18_SingleParserPass ==
    pc = "returned" =>
        LET fed == FeedAll(file, 1,
                       [parser |-> LineParser_new(detect_delimiter(Window)),
                        outcomes |-> <<>>,
                        summary |-> ParseSummary_default,
                        sink_log |-> <<>>])
        IN  /\ Len(outcomes) = Len(file)
            /\ outcomes = fed.outcomes
            /\ summary = fed.summary
            /\ sink_log = fed.sink_log
            /\ parser = fed.parser

\* C18, witness: process_file has returned on a file longer than the window
\* whose header lies in the window and which has a row parsed beyond it, the
\* header not naming its columns in the default order.
C18_Witness ==
    /\ pc = "returned"
    /\ Len(file) > LOOKAHEAD_LINES
    /\ file[1] = L_TWO_ID_HEADER
    /\ outcomes[Len(file)] = "Parsed"
    /\ sink_log # <<>>
    /\ sink_log[Len(sink_log)].line = Len(file)

\* C19: the rsid of a parsed row is the value of the first alias of rsid, in
\* the order the alias table declares them (rsid, name, snp, marker, id),
\* whose column holds a non-empty value; under the header rsid, id, chr, pos,
\* gt the row rs9, x9, 1, 100, AA gives a record whose rsid is rs9.
C19_DeclaredOrderLookup ==
    \A i \in {Len(outcomes)} \ {0} :
        (IsDataRow(i) /\ parser.header.some /\ outcomes[i] \in {"Parsed", "Err"}) =>
            /\ sink_log # <<>>
            /\ sink_log[Len(sink_log)] =
                  [line |-> i,
                   record |-> [_rsid |->
                      unwrap_or_default(
                          lookup_from(build_row_map(parser.header.val, Fields(i)),
                                      RSID_ALIASES))]]
            /\ (parser.header.val = Fields(1) /\ file[1] = L_TWO_ID_HEADER
                    /\ file[i] = L_TWO_ID_ROW) =>
                  sink_log[Len(sink_log)].record._rsid = <<"r", "s", "9">>

\* The lines of the window that are neither blank nor comments and hold a
\* tab, a comma or more than one whitespace-separated token.
QualifyingInWindow == {i \in SubstantiveInWindow : Qualifies(buffered_lines[i])}

\* C20, as stated: when the first line of the window that is neither blank
\* nor a comment has no tab, no comma and a single token, the delimiter
\* detect_delimiter returned is Tab, whatever the later lines of the window
\* are.
C20_FirstSubstantiveOnly ==
    parser.delimiter # "unset" =>
        \A i \in SubstantiveInWindow :
            (/\ \A j \in SubstantiveInWindow : i <= j
             /\ ~Qualifies(buffered_lines[i])) => parser.delimiter = "Tab"

\* C20, amended: the delimiter is decided by the first line of the window
\* that is neither blank nor a comment and holds a tab, a comma or more than
\* one token; a single-token line before it is passed over, so that a
\* single-token line followed by a space-delimited line gives Space; the
\* delimiter is Tab when no line of the window decides.  Stated where
\* detect_delimiter has just returned and the parser has been created.
C20_FirstQualifyingLine ==
    (pc = "buffered" /\ next_buffered = 1) =>
        /\ QualifyingInWindow = {} => parser.delimiter = "Tab"
        /\ \A i \in QualifyingInWindow :
              (\A j \in QualifyingInWindow : i <= j) =>
                  parser.delimiter =
                      IF HasChar(buffered_lines[i], "\t") THEN "Tab"
                      ELSE IF HasChar(buffered_lines[i], ",") THEN "Comma"
                      ELSE "Space"
        /\ (/\ Len(buffered_lines) >= 2
            /\ buffered_lines[1] = L_ONE_TOKEN
            /\ buffered_lines[2] = L_SP_ROW) => parser.delimiter = "Space"

\* C20, witness: the window is a single-token line followed by a
\* space-delimited row, and the delimiter is Space.
C20_Witness ==
    /\ pc = "buffered"
    /\ buffered_lines = <<L_ONE_TOKEN, L_SP_ROW>>
    /\ parser.delimiter = "Space"

\* The outcomes consume_line may give for a row that classifies as `outcome`
\* under a header: Parsed is reported as an error when the sink fails.
OutcomesOf(outcome) == IF outcome = "Parsed" THEN {"Parsed", "Err"} ELSE {outcome}

\* A step of process_file that consumes the line numbered n.
Consumes(n) == Len(outcomes) = n - 1 /\ Len(outcomes') = n

\* C21: in every step of process_file on a file, the delimiter of the parser,
\* once chosen, stays what it is, and the header, once set (from a header
\* line, a comment-header candidate or the default), stays what it is; a
\* line consumed after that which is neither blank nor a comment gets the
\* outcome of its tokens under that delimiter mapped with that header.
C21_DelimiterAndHeaderFixed ==
    [][/\ parser.delimiter # "unset" => parser'.delimiter = parser.delimiter
       /\ parser.header.some =>
             /\ parser'.header = parser.header
             /\ \A n \in {Len(outcomes')} \ {0} :
                   (/\ Consumes(n)
                    /\ ~IsBlank(file[n])
                    /\ ~IsCommentLine(file[n])) =>
                       outcomes'[n] \in
                           OutcomesOf(classify_row(parser.header.val,
                                          parse_fields(parser, file[n])).outcome)]_vars

\* C21, witness: a file whose header came from a comment has been read to
\* its end, two rows mapped with that header.
C21_Witness ==
    /\ pc = "returned"
    /\ file = <<L_COMMENT_HEADER, L_BAD_POSITION, L_ROW>>
    /\ parser.delimiter = "Tab"
    /\ parser.header = Some(parse_fields(parser, L_HEADER))
    /\ outcomes = <<"Ignored", "Skipped", "Parsed">>

\* The tokens of a comment-header candidate: those consume_comment records
\* for the line in a parser that has recorded none.
CandidateFields(line) ==
    consume_comment(LineParser_new(parser.delimiter), trim(line)).comment_header.val

\* The comment-header candidates among the first i lines of the file.
CandidatesUpTo(i) == {c \in 1..i : IsCandidate(file[c])}

SnpHeaderFields == << <<"s", "n", "p">>, <<"c", "h", "r">>, <<"p", "o", "s">>, <<"g", "t">> >>

\* C22: while the header is not resolved, the candidate the parser holds is
\* the last comment line so far whose first token is an rsid alias, comment
\* lines that are not header-like leaving it as it is; when the first line
\* that is neither blank nor a comment is not a header, the header becomes
\* that last candidate and the line is classified as a data row.  When the
\* last candidate is `// snp<TAB>chr<TAB>pos<TAB>gt`, after `# rsid..genotype`
\* or before a `# note` line, the header is snp, chr, pos, gt.
C22_LastCandidateWins ==
    \A i \in {Len(outcomes)} \ {0} :
        LET cands == CandidatesUpTo(i)
            last == CHOOSE c \in cands : \A d \in cands : d <= c
        IN  /\ (~parser.header.some /\ parser.delimiter # "unset") =>
                  parser.comment_header =
                      IF cands = {} THEN None ELSE Some(CandidateFields(file[last]))
            /\ (FirstSubstantive(i) /\ ~looks_like_header(Fields(i)) /\ cands # {}) =>
                  /\ parser.header = Some(CandidateFields(file[last]))
                  /\ outcomes[i] \in {"Parsed", "Skipped", "Err"}
                  /\ file[last] = L_SLASH_SNP_HEADER =>
                        parser.header = Some(SnpHeaderFields)

\* C22, witness: two candidates and a row have been consumed, and the header
\* is the second candidate.
C22_Witness ==
    /\ pc = "returned"
    /\ file = <<L_COMMENT_HEADER, L_SLASH_SNP_HEADER, L_ROW>>
    /\ CandidatesUpTo(3) = {1, 2}
    /\ parser.header = Some(SnpHeaderFields)
    /\ outcomes = <<"Ignored", "Ignored", "Parsed">>

\* C23: the step that consumes a blank line (empty or of whitespace only)
\* gives Ignored and leaves the parser (header and comment-header candidate),
\* the counters and the log of the sink as they were; the step that consumes
\* a comment line, wherever it stands in the file, gives Ignored and leaves
\* the log of the sink, the counters, the resolved header and the delimiter
\* as they were.
C23_BlankAndCommentFrame ==
    [][\A n \in {Len(outcomes')} \ {0} :
          Consumes(n) =>
              /\ IsBlank(file[n]) =>
                    /\ outcomes'[n] = "Ignored"
                    /\ parser' = parser
                    /\ summary' = summary
                    /\ sink_log' = sink_log
              /\ IsCommentLine(file[n]) =>
                    /\ outcomes'[n] = "Ignored"
                    /\ parser'.header = parser.header
                    /\ parser'.delimiter = parser.delimiter
                    /\ summary' = summary
                    /\ sink_log' = sink_log]_vars

\* C23, witness: a row, a header-like comment after it and an empty line
\* have been consumed; the counters are those of the row and the header is
\* the default one of the row.
C23_Witness ==
    /\ pc = "returned"
    /\ file = <<L_ROW, L_COMMENT_HEADER, L_BLANK>>
    /\ outcomes = <<"Parsed", "Ignored", "Ignored">>
    /\ summary = [variant_count |-> 1, skipped_rows |-> 0]
    /\ parser.header = Some(FourNames)
    /\ parser.comment_header.some
    /\ Len(sink_log) = 1

\* A row lacks a canonical field when no column paired with one of its
\* tokens is named by an alias of the field.
Lacks(present, key) == present \cap NormalizedAliases[key] = {}

LacksRequired(present) ==
    \/ Lacks(present, "rsid")
    \/ Lacks(present, "chromosome")
    \/ Lacks(present, "position")
    \/ /\ Lacks(present, "genotype")
       /\ Lacks(present, "allele1")
       /\ Lacks(present, "allele2")

\* What C24 says of the data row numbered i, given the header it was mapped
\* with, its outcome and the log of the sink after it.
PairedByPosition(i, header, outcome, logged) ==
    LET fields == Fields(i)
        paired == Min(Len(header), Len(fields))
        present == {normalize_name(header[k]) : k \in 1..paired}
        cut(row) ==
            /\ outcome \in OutcomesOf(row.outcome)
            /\ row.outcome = "Parsed" =>
                  logged[Len(logged)] = [line |-> i, record |-> row.record]
    IN  /\ Len(fields) > Len(header) =>
              Let(cut, classify_row(header, SubSeq(fields, 1, Len(header))))
        /\ (Len(fields) < Len(header) /\ LacksRequired(present)) =>
              outcome = "Skipped"
        /\ (header = FourNames /\ file[i] \in {L_LATE_GENOTYPE, L_TWO_FIELDS}) =>
              outcome = "Skipped"

\* C24: in every step that consumes a data row, the following holds of the
\* row.  When it has more tokens than the header, it has the outcome and the
\* record of its first Len(header) tokens alone; when it has fewer, the
\* columns beyond its tokens are unset, and it is Skipped if a required field
\* has no column among those paired with a token.  Under the header rsid,
\* chromosome, position, genotype the row rs5, 1, 100, (empty), AA is Skipped
\* (its fifth token is not its genotype) and so is the row rs3, 2.
C24_PairedByPosition ==
    [][\A n \in {Len(outcomes')} \ {0} :
          (Consumes(n) /\ IsDataRow(n)) =>
              PairedByPosition(n, parser'.header.val, outcomes'[n], sink_log')]_vars

\* C24, witness: under a header of four names a row of five tokens and a row
\* of two have been skipped.
C24_Witness ==
    /\ pc = "returned"
    /\ file = <<L_HEADER, L_LATE_GENOTYPE, L_TWO_FIELDS>>
    /\ parser.header = Some(FourNames)
    /\ Len(Fields(2)) = 5
    /\ Len(Fields(3)) = 2
    /\ outcomes = <<"Ignored", "Skipped", "Skipped">>
    /\ sink_log = <<>>

\* The value of a field as the claim gives it: the text before the first `#`
\* or `//`, whichever comes first, trimmed.
WithoutInlineComment(value) ==
    LET marks == {k \in DOMAIN value :
                     \/ value[k] = "#"
                     \/ value[k] = "/" /\ k < Len(value) /\ value[k + 1] = "/"}
        first == CHOOSE k \in marks : \A m \in marks : k <= m
    IN  trim(IF marks = {} THEN value ELSE SubSeq(value, 1, first - 1))

\* The row map of the claim: each column paired with a token, under its
\* normalized name, holds the token without its inline comment.
ClaimedRowMap(header, fields) ==
    LET paired == Min(Len(header), Len(fields))
        column(name) ==
            CHOOSE k \in 1..paired :
                /\ normalize_name(header[k]) = name
                /\ \A m \in 1..paired : normalize_name(header[m]) = name => m <= k
    IN  [name \in {normalize_name(header[k]) : k \in 1..paired} |->
            WithoutInlineComment(fields[column(name)])]

\* What C25 says of the data row numbered i, given the header it was mapped
\* with, its outcome and the log of the sink after it.
InlineCommentsStripped(i, header, outcome, logged) ==
    LET expected(row_map) ==
            /\ build_row_map(header, Fields(i)) = row_map
            /\ IF Required(row_map)
               THEN /\ outcome \in {"Parsed", "Err"}
                    /\ logged[Len(logged)].line = i
                    /\ \E name \in DOMAIN row_map \cap NormalizedAliases["rsid"] :
                          logged[Len(logged)].record._rsid = row_map[name]
               ELSE outcome = "Skipped"
    IN  /\ Let(expected, ClaimedRowMap(header, Fields(i)))
        /\ (header = FourNames /\ file[i] = L_COMMENTED_FIELDS) =>
              /\ outcome \in {"Parsed", "Err"}
              /\ logged[Len(logged)] =
                    [line |-> i, record |-> [_rsid |-> <<"r", "s", "7">>]]
        /\ (header = FourNames /\ file[i] = L_COMMENTED_OUT_GENOTYPE) =>
              outcome = "Skipped"

\* C25: in every step that consumes a data row, the row is validated on its
\* field values with everything from the first `#` or `//` removed and the
\* rest trimmed: it is Parsed exactly when the required fields resolve on
\* those values, a field left empty counting as missing, and the rsid of its
\* record is the value without its comment.  Under the header rsid,
\* chromosome, position, genotype the row `rs7 // a`, `1 # b`, `100 // c`,
\* `AA # d // e` is Parsed with rsid rs7, and the row rs8, 1, 100, `# AA` is
\* Skipped.
C25_InlineCommentsStripped ==
    [][\A n \in {Len(outcomes')} \ {0} :
          (Consumes(n) /\ IsDataRow(n)) =>
              InlineCommentsStripped(n, parser'.header.val, outcomes'[n],
                                     sink_log')]_vars

\* C25, witness: under a header of four names the row with a comment in each
\* field has been parsed with rsid rs7 and the row whose genotype is a
\* comment has been skipped.
C25_Witness ==
    /\ pc = "returned"
    /\ file = <<L_HEADER, L_COMMENTED_FIELDS, L_COMMENTED_OUT_GENOTYPE>>
    /\ outcomes = <<"Ignored", "Parsed", "Skipped">>
    /\ sink_log = <<[line |-> 2, record |-> [_rsid |-> <<"r", "s", "7">>]]>>
    /\ summary = [variant_count |-> 1, skipped_rows |-> 1]

\* The files of the batch whose run returned an error other than SkipFile.
FailedFiles == {p \in Range(files) : NonSkipError(ran[p])}

\* C26: a worker is between failures.lock() and the end of its push exactly
\* when it holds the mutex, so that at most one is; the failure list changes
\* only by the push of the worker that holds the mutex; the list is read for
\* the report only in a step taken after pool.install returned, and from
\* then on no file is pending, every worker is idle and the mutex is free;
\* and the list read holds one entry for each file that failed, whatever the
\* interleaving of the workers.
C26_FailureListGuarded ==
    /\ [](/\ \A w \in Workers : worker[w].pc = "locked" <=> mutex = w
          /\ BatchEnded =>
                /\ pending = {}
                /\ mutex = 0
                /\ \A w \in Workers : worker[w] = Idle
                /\ Len(failures) = Cardinality(FailedFiles)
          /\ main_pc \in {"summary", "returned"} /\ returned # "Err" =>
                reported = failures)
    /\ [][/\ failures' # failures =>
                /\ mutex # 0
                /\ worker[mutex].pc = "locked"
                /\ failures' = Append(failures, failure_entry(mutex))
                /\ mutex' = 0
          /\ reported' # reported =>
                /\ main_pc = "report"
                /\ reported' = failures
                /\ failures' = failures]_vars

\* C26, witness: a worker holds the mutex while another worker, whose file
\* failed too, waits for it.
C26_Witness ==
    \E w1, w2 \in Workers :
        /\ w1 # w2
        /\ worker[w1].pc = "locked"
        /\ mutex = w1
        /\ worker[w2].pc = "result"
        /\ is_failure(ran[worker[w2].path])

\* The header of the file was synthesized from a first data line of fewer
\* than 4 tokens: the file has no header line and no comment-header
\* candidate before its first data line, numbered i.
ShortDefaultHeader(i) ==
    /\ i \in DOMAIN outcomes
    /\ FirstRowOfHeaderless(i)
    /\ Len(Fields(i)) < 4

\* C27: when the default header was synthesized from a first data line of
\* fewer than 4 tokens, it keeps the length of that line and has no genotype
\* column, every line consumed is Skipped or Ignored, rows of 4 or more valid
\* tokens included, no row is counted as a variant and the sink is never
\* invoked.
C27_ShortDefaultHeaderSkipsAll ==
    \A i \in {k \in DOMAIN outcomes : FirstSubstantive(k)} :
        ShortDefaultHeader(i) =>
            /\ parser.header = Some(ExpectedDefaultHeader(Len(Fields(i))))
            /\ <<"g", "e", "n", "o", "t", "y", "p", "e">> \notin Range(parser.header.val)
            /\ \A k \in DOMAIN outcomes : outcomes[k] \in {"Skipped", "Ignored"}
            /\ \A k \in i..Len(outcomes) : Substantive(k) => outcomes[k] = "Skipped"
            /\ summary.variant_count = 0
            /\ sink_log = <<>>

\* C27, witness: a file of a row of two tokens followed by two complete rows
\* of four has been read to its end, every row skipped.
C27_Witness ==
    /\ pc = "returned"
    /\ file = <<L_TWO_FIELDS, L_ROW, L_ROW>>
    /\ ShortDefaultHeader(1)
    /\ Len(parser.header.val) = 2
    /\ outcomes = <<"Skipped", "Skipped", "Skipped">>
    /\ summary = [variant_count |-> 0, skipped_rows |-> 3]
    /\ sink_log = <<>>

\* C28: when the lookahead window (the first LOOKAHEAD_LINES lines of the
\* file) holds no line that is neither blank nor a comment, the delimiter is
\* Tab for the whole file; a comma- or space-delimited line after the window,
\* having no tab, is then a single token: it is never split into its
\* columns, and as a line of one token it is never Parsed (it is Skipped,
\* or Ignored if that token is taken as a header) and never reaches the sink.
C28_WindowDecidesDelimiter ==
    (parser.delimiter # "unset" /\ SubstantiveInWindow = {}) =>
        /\ parser.delimiter = "Tab"
        /\ \A i \in {Len(outcomes)} \ {0} :
              (/\ i > Len(buffered_lines)
               /\ Substantive(i)
               /\ ~HasChar(file[i], "\t")) =>
                  /\ Fields(i) = <<trim(file[i])>>
                  /\ outcomes[i] \in {"Skipped", "Ignored"}
                  /\ looks_like_header(<<trim(file[i])>>) \/ outcomes[i] = "Skipped"
                  /\ \A k \in DOMAIN sink_log : sink_log[k].line # i

\* C28, witness: after a window of a comment and a line of spaces, a
\* space-delimited row has been consumed under the Tab delimiter and skipped.
C28_Witness ==
    /\ pc = "returned"
    /\ file = <<L_NOTE, L_SPACES, L_SP_ROW>>
    /\ buffered_lines = <<L_NOTE, L_SPACES>>
    /\ parser.delimiter = "Tab"
    /\ Len(parser.header.val) = 1
    /\ outcomes = <<"Ignored", "Ignored", "Skipped">>

\* C29: in a step that consumes a line after the header was resolved, a line
\* that is not a comment and whose first token is an rsid alias is not
\* consumed as a header: the header stays, the line is a data row (Parsed,
\* the error of the sink, or Skipped) and one of the two counters goes up by
\* one unless the sink failed; and the outcome of a data row is what it would
\* be had no comment-header candidate been recorded.
C29_NoHeaderAfterResolution ==
    [][\A n \in {Len(outcomes')} \ {0} :
          (Consumes(n) /\ parser.header.some /\ Substantive(n)) =>
              /\ looks_like_header(Fields(n)) =>
                    /\ parser'.header = parser.header
                    /\ outcomes'[n] \in {"Parsed", "Skipped", "Err"}
                    /\ outcomes'[n] = "Parsed" =>
                          summary' = [summary EXCEPT !.variant_count = @ + 1]
                    /\ outcomes'[n] = "Skipped" =>
                          summary' = [summary EXCEPT !.skipped_rows = @ + 1]
              /\ outcomes'[n] \in
                    OutcomesOf(consume_line([parser EXCEPT !.comment_header = None],
                                            file[n], TRUE).result)]_vars

\* C29, witness: the header line, repeated, was skipped as a data row and
\* counted in skipped_rows; the row after it parsed under the header of the
\* first line.
C29_Witness ==
    /\ pc = "returned"
    /\ file = <<L_HEADER, L_HEADER, L_ROW>>
    /\ parser.header = Some(FourNames)
    /\ outcomes = <<"Ignored", "Skipped", "Parsed">>
    /\ summary = [variant_count |-> 1, skipped_rows |-> 1]

====
